---------------------------- MODULE Spec2Model ----------------------------
(***************************************************************************)
(* Model of the entity/query engine of Samanta-Campaigns:                  *)
(*   api/objects/objectlist.py  ObjectList (filter DSL, ordering, set      *)
(*                              algebra, typed mutation, all())            *)
(*   api/objects/manager.py     ObjectManager.bulk_save / abulk_save       *)
(*   api/objects/types/db.py    DBObject.save / asave                      *)
(*   api/datacube/objects.py    DatacubeObject.asave                       *)
(*                                                                         *)
(* Python values are tagged records [t |-> type, v |-> payload]; text is   *)
(* a sequence of code points, so str(), lower(), startswith() and the      *)
(* ordering of text are computed, not assumed.                             *)
(***************************************************************************)
EXTENDS Integers, Sequences, FiniteSets, TLC

(***************************************************************************)
(* Bounds                                                                  *)
(***************************************************************************)
MaxLen == 2          \* longest receiver collection explored
MaxBulk == 2         \* most entities given to one bulk_save
MaxAttempts == 3      \* most client calls followed in one adapter operation
MaxCache == 2         \* largest max_size of a bounded cache
MaxEvents == 2       \* events held by all lists together
MaxRuns == 2         \* runs of the campaign followed

(***************************************************************************)
(* Python values                                                           *)
(***************************************************************************)
IntV(n) == [t |-> "int", v |-> n]
StrV(s) == [t |-> "str", v |-> s]
ListV(l) == [t |-> "list", v |-> l]
NoneV == [t |-> "none", v |-> 0]
MethodV(owner, name) == [t |-> "method", v |-> <<owner, name>>]

\* x == y of Python for the value kinds of the model
PyEq(x, y) == x.t = y.t /\ x.v = y.v

RECURSIVE IntToStr(_)
\* str(n) for a non-negative int: its decimal digits as code points
IntToStr(n) == IF n < 10 THEN <<48 + n>> ELSE IntToStr(n \div 10) \o <<48 + (n % 10)>>

\* str(x)
PyStr(x) ==
  CASE x.t = "int" -> IntToStr(x.v)
    [] x.t = "str" -> x.v
    [] x.t = "none" -> <<78, 111, 110, 101>>

\* str.lower()
Lower(s) == [i \in 1..Len(s) |-> IF s[i] \in 65..90 THEN s[i] + 32 ELSE s[i]]

\* s.startswith(p)
StartsWith(s, p) == Len(p) <= Len(s) /\ SubSeq(s, 1, Len(p)) = p

\* s.endswith(p)
EndsWith(s, p) == Len(p) <= Len(s) /\ SubSeq(s, Len(s) - Len(p) + 1, Len(s)) = p

\* p in s, for text
Contains(s, p) == \E i \in 0..(Len(s) - Len(p)) : SubSeq(s, i + 1, i + Len(p)) = p

\* s < r for text: lexicographic on code points
StrLess(s, r) ==
  \E i \in 1..(Len(r)) :
     /\ \A j \in 1..(i - 1) : j <= Len(s) /\ s[j] = r[j]
     /\ (i > Len(s) \/ (i <= Len(s) /\ s[i] < r[i]))
     /\ i - 1 <= Len(s)

\* whether x < y is defined (int with int, text with text)
Comparable(x, y) == x.t = y.t /\ x.t \in {"int", "str"}

\* x < y where Comparable(x, y)
PyLess(x, y) == IF x.t = "int" THEN x.v < y.v ELSE StrLess(x.v, y.v)

\* x <= y where Comparable(x, y)
PyLessEq(x, y) == PyLess(x, y) \/ PyEq(x, y)

(***************************************************************************)
(* ObjectList.available_lookups: each evaluator returns "true", "false",   *)
(* or the exception it raises                                              *)
(***************************************************************************)
Truth(b) == IF b THEN "true" ELSE "false"

lookup_exact(x, y) == Truth(PyEq(x, y))
lookup_iexact(x, y) == Truth(Lower(PyStr(x)) = Lower(PyStr(y)))
lookup_contains(x, y) == Truth(Contains(PyStr(x), PyStr(y)))
lookup_icontains(x, y) == Truth(Contains(Lower(PyStr(x)), Lower(PyStr(y))))
\* str(x).startswith(y): y itself, not str(y), is handed to startswith
lookup_startswith(x, y) ==
  IF y.t = "str" THEN Truth(StartsWith(PyStr(x), y.v)) ELSE "TypeError"
lookup_istartswith(x, y) == Truth(StartsWith(Lower(PyStr(x)), Lower(PyStr(y))))
lookup_endswith(x, y) == Truth(EndsWith(PyStr(x), PyStr(y)))
lookup_iendswith(x, y) == Truth(EndsWith(Lower(PyStr(x)), Lower(PyStr(y))))
\* x in y: membership of a list, containment in a text, TypeError otherwise
lookup_in(x, y) ==
  CASE y.t = "list" -> Truth(\E i \in 1..Len(y.v) : PyEq(x, y.v[i]))
    [] y.t = "str" -> IF x.t = "str" THEN Truth(Contains(y.v, x.v)) ELSE "TypeError"
    [] OTHER -> "TypeError"
lookup_gt(x, y) == IF Comparable(x, y) THEN Truth(PyLess(y, x)) ELSE "TypeError"
lookup_gte(x, y) == IF Comparable(x, y) THEN Truth(PyLessEq(y, x)) ELSE "TypeError"
lookup_lt(x, y) == IF Comparable(x, y) THEN Truth(PyLess(x, y)) ELSE "TypeError"
lookup_lte(x, y) == IF Comparable(x, y) THEN Truth(PyLessEq(x, y)) ELSE "TypeError"
\* y[0] <= x <= y[1]: the second comparison is made only when the first holds
lookup_range(x, y) ==
  CASE y.t = "list" /\ Len(y.v) = 0 -> "IndexError"
    [] y.t = "list" /\ Len(y.v) >= 1 ->
         IF ~Comparable(y.v[1], x) THEN "TypeError"
         ELSE IF ~PyLessEq(y.v[1], x) THEN "false"
         ELSE IF Len(y.v) < 2 THEN "IndexError"
         ELSE IF ~Comparable(x, y.v[2]) THEN "TypeError"
         ELSE Truth(PyLessEq(x, y.v[2]))
    [] OTHER -> "TypeError"

available_lookups ==
  {"exact", "iexact", "contains", "icontains", "startswith", "istartswith",
   "endswith", "iendswith", "in", "gt", "gte", "lt", "lte", "range"}

\* self.available_lookups[lookup](x, y)
lookup_evaluator(lookup, x, y) ==
  CASE lookup = "exact" -> lookup_exact(x, y)
    [] lookup = "iexact" -> lookup_iexact(x, y)
    [] lookup = "contains" -> lookup_contains(x, y)
    [] lookup = "icontains" -> lookup_icontains(x, y)
    [] lookup = "startswith" -> lookup_startswith(x, y)
    [] lookup = "istartswith" -> lookup_istartswith(x, y)
    [] lookup = "endswith" -> lookup_endswith(x, y)
    [] lookup = "iendswith" -> lookup_iendswith(x, y)
    [] lookup = "in" -> lookup_in(x, y)
    [] lookup = "gt" -> lookup_gt(x, y)
    [] lookup = "gte" -> lookup_gte(x, y)
    [] lookup = "lt" -> lookup_lt(x, y)
    [] lookup = "lte" -> lookup_lte(x, y)
    [] lookup = "range" -> lookup_range(x, y)


(***************************************************************************)
(* Entities.  Human(name, age) and its subclass Woman are declared in      *)
(* api/objects/types/inmemory.py; Campaign is a DatacubeObject and Book    *)
(* the DBObject of the documentation.  h3 is a second, stale instance      *)
(* carrying the primary key and the name of h1; f1 is the instance a       *)
(* backend fetch reconstructs from the stored document d1.                 *)
(***************************************************************************)
Instances == {"h1", "h2", "h3", "w1", "c1", "f1"}
Documents == {"d1"}

\* obj.__class__
ClassOf(o) ==
  CASE o \in {"h1", "h2", "h3", "f1"} -> "Human"
    [] o = "w1" -> "Woman"
    [] o \in {"c1", "c2"} -> "Campaign"
    [] o \in {"b1", "b2"} -> "Book"

\* issubclass(c, d)
IsSubclass(c, d) == c = d \/ (c = "Woman" /\ d = "Human")

\* the Object class hierarchy: which classes support database operations
SupportsDB(c) == c \in {"Book", "Campaign"}

\* Object._pkey of the entities of the collection model: 0 stands for None,
\* a positive number n for the key text of document n
NoKey == 0
ListPkey(o) == IF o \in {"h1", "h3", "f1"} THEN 1 ELSE NoKey

\* the declared attributes of Human and their values
Attributes == {"name", "age"}
AttrName(o) ==
  CASE o \in {"h1", "h3", "f1", "w1"} -> <<65, 108>>     \* "Al"
    [] o = "h2" -> <<98, 111>>                            \* "bo"
    [] OTHER -> <<67>>                                    \* "C"
AttrAge(o) ==
  CASE o \in {"h1", "f1", "w1"} -> 30
    [] o = "h2" -> 20
    [] o = "h3" -> 25
    [] OTHER -> 1

\* hasattr(obj, key) for an entity
ObjHasAttr(o, key) == key \in Attributes \cup {"pkey"}

\* getattr(obj, key) for an entity
ObjGetAttr(o, key) ==
  CASE key = "name" -> StrV(AttrName(o))
    [] key = "age" -> IntV(AttrAge(o))
    [] key = "pkey" -> IF ListPkey(o) = NoKey THEN NoneV ELSE StrV(IntToStr(ListPkey(o)))

\* hasattr(value, name) for an attribute value: text carries the str methods
\* (startswith and endswith among them), an int carries real
ValHasAttr(x, name) ==
  CASE x.t = "str" -> name \in {"startswith", "endswith", "lower", "upper"}
    [] x.t = "int" -> name \in {"real"}
    [] OTHER -> FALSE

\* getattr(value, name) where ValHasAttr(value, name)
ValGetAttr(x, name) == IF x.t = "int" /\ name = "real" THEN x ELSE MethodV(x, name)

(***************************************************************************)
(* ObjectList.filter: the test of one object against the keywords.         *)
(* A keyword is [key |-> segments of key.split("__"), val |-> value]; the  *)
(* outcome is "true", "false" or the name of the exception raised.         *)
(***************************************************************************)
RECURSIVE WalkLookups(_, _, _, _)
\* the loop over lookups (lines 132-158) from position index on
WalkLookups(rel_obj, lookups, index, value) ==
  IF index > Len(lookups) THEN "true"
  ELSE LET lookup == lookups[index] IN
    IF lookup = "" THEN "true"
    ELSE IF ValHasAttr(rel_obj, lookup)
    THEN LET next == ValGetAttr(rel_obj, lookup) IN
         IF index = Len(lookups) /\ ~PyEq(next, value) THEN "false"
         ELSE WalkLookups(next, lookups, index + 1, value)
    ELSE IF lookup \notin available_lookups THEN "LookupError"
    ELSE LET r == lookup_evaluator(lookup, rel_obj, value) IN
         CASE r = "true" -> WalkLookups(rel_obj, lookups, index + 1, value)
           [] r = "false" -> "false"
           [] OTHER -> "LookupError"

\* one keyword against one object (lines 129-162)
MatchKeyword(o, kw) ==
  IF Len(kw.key) > 1
  THEN IF ~ObjHasAttr(o, kw.key[1]) THEN "AttributeError"
       ELSE WalkLookups(ObjGetAttr(o, kw.key[1]), Tail(kw.key), 1, kw.val)
  ELSE IF ~ObjHasAttr(o, kw.key[1]) THEN "AttributeError"
       ELSE Truth(PyEq(ObjGetAttr(o, kw.key[1]), kw.val))

RECURSIVE MatchFrom(_, _, _)
\* the loop over kwargs.items() (lines 128-165): stops at the first keyword
\* that does not match, raises at the first keyword that raises
MatchFrom(o, kwargs, i) ==
  IF i > Len(kwargs) THEN "true"
  ELSE LET r == MatchKeyword(o, kwargs[i]) IN
       IF r = "true" THEN MatchFrom(o, kwargs, i + 1) ELSE r

is_match(o, kwargs) == MatchFrom(o, kwargs, 1)

RECURSIVE FilterLoop(_, _, _, _, _)
\* the loop over self.all() (lines 126-173): objs is the materialized list,
\* clone the result so far; yields the clone or the exception raised
FilterLoop(objs, i, kwargs, negate, clone) ==
  IF i > Len(objs) THEN [kind |-> "list", val |-> clone]
  ELSE LET r == is_match(objs[i], kwargs) IN
       IF r \notin {"true", "false"} THEN [kind |-> "exc", val |-> <<r, "">>]
       ELSE IF (r = "true") = (~negate)
            THEN FilterLoop(objs, i + 1, kwargs, negate, Append(clone, objs[i]))
            ELSE FilterLoop(objs, i + 1, kwargs, negate, clone)


(***************************************************************************)
(* Sequences, sets and Python's stable sort                                *)
(***************************************************************************)
Range(seq) == {seq[i] : i \in 1..Len(seq)}

\* every order in which iterating set(...) can yield the elements of S
Perms(S) ==
  {f \in [1..Cardinality(S) -> S] : \A i, j \in 1..Cardinality(S) : f[i] = f[j] => i = j}

\* sequences over S of length at most n
RECURSIVE SeqsUpTo(_, _)
SeqsUpTo(S, n) ==
  IF n = 0 THEN {<<>>}
  ELSE SeqsUpTo(S, n - 1) \cup {Append(q, x) : q \in {r \in SeqsUpTo(S, n - 1) : Len(r) = n - 1}, x \in S}

\* key(a) before key(b) in the direction of the sort
KeyBefore(a, b, attr, reverse) ==
  IF reverse THEN PyLess(ObjGetAttr(b, attr), ObjGetAttr(a, attr))
  ELSE PyLess(ObjGetAttr(a, attr), ObjGetAttr(b, attr))

RECURSIVE InsertStable(_, _, _, _)
\* put x into the sorted sequence after every element that does not come
\* strictly after it: equal keys keep their earlier order
InsertStable(sorted, x, attr, reverse) ==
  IF sorted = <<>> THEN <<x>>
  ELSE IF KeyBefore(x, Head(sorted), attr, reverse)
       THEN <<x>> \o sorted
       ELSE <<Head(sorted)>> \o InsertStable(Tail(sorted), x, attr, reverse)

RECURSIVE SortLoop(_, _, _, _, _)
SortLoop(seq, i, acc, attr, reverse) ==
  IF i > Len(seq) THEN acc
  ELSE SortLoop(seq, i + 1, InsertStable(acc, seq[i], attr, reverse), attr, reverse)

\* a sort that ignores reverse
sort_ascending(seq, attr, reverse) == SortLoop(seq, 1, <<>>, attr, FALSE)

\* list.sort(key=lambda x: getattr(x, attr), reverse=reverse)
sort(seq, attr, reverse) == SortLoop(seq, 1, <<>>, attr, reverse)

\* an order_by argument: [attr |-> name, desc |-> prefixed with "-"]
Asc(a) == [attr |-> a, desc |-> FALSE]
Desc(a) == [attr |-> a, desc |-> TRUE]

RECURSIVE OrderLoop(_, _, _)
\* the loop over attrs of order_by (lines 351-357)
OrderLoop(clone, attrs, i) ==
  IF i > Len(attrs) THEN [kind |-> "list", val |-> clone]
  ELSE IF clone # <<>> /\ attrs[i].attr \notin Attributes THEN [kind |-> "exc", val |-> <<"AttributeError", "">>]
  ELSE OrderLoop(sort(clone, attrs[i].attr, attrs[i].desc), attrs, i + 1)

\* ObjectList.order_by(*attrs) on the list seq
order_by(seq, attrs) == OrderLoop(seq, attrs, 1)

(***************************************************************************)
(* ObjectList.__checktypes__ and the backend bridge                        *)
(***************************************************************************)
\* the object_class of the collection of the model
object_class == "Human"

\* a type check that lets instances of subclasses through
checktypes_isinstance(objs) ==
  \A i \in 1..Len(objs) : IsSubclass(ClassOf(objs[i]), object_class)

\* __checktypes__(iter): TRUE when it returns, FALSE when it raises TypeError
checktypes(objs) ==
  \A i \in 1..Len(objs) :
     IsSubclass(ClassOf(objs[i]), object_class) /\ ClassOf(objs[i]) = object_class

\* the instance from_dbvalue builds for a stored document
Reconstruct(d) == "f1"

\* a _fetch_all without the test of self._db
fetch_all_unguarded(att, st) == [calls |-> 1, objs |-> {Reconstruct(d) : d \in st}]

\* ObjectList._fetch_all: the number of backend fetch calls it makes and the
\* entities it returns
fetch_all(att, st) ==
  IF ~att THEN [calls |-> 0, objs |-> {}]
  ELSE [calls |-> 1, objs |-> {Reconstruct(d) : d \in st}]

\* the entities all() gathers before ordering: set(copy).union(db_result)
AllSet(mem, att, st) == Range(mem) \cup fetch_all(att, st).objs

\* ObjectList.all() given the order s in which the set was iterated
all_(s, ord) == IF ord # <<>> THEN order_by(s, ord).val ELSE s


(***************************************************************************)
(* Results of an operation: val is the list returned, the one entity       *)
(* returned, or the exception raised and the entity type that owns it      *)
(***************************************************************************)
RetList(l) == [kind |-> "list", val |-> l]
RetObj(o) == [kind |-> "obj", val |-> <<o>>]
RetNone == [kind |-> "none", val |-> <<>>]
Exc(name) == [kind |-> "exc", val |-> <<name, "">>]
\* ObjectMeta.__new__ gives every entity type its own DoesNotExist and
\* MultipleObjectsReturned
DoesNotExist(cls) == [kind |-> "exc", val |-> <<"DoesNotExist", cls>>]
MultipleObjectsReturned(cls) == [kind |-> "exc", val |-> <<"MultipleObjectsReturned", cls>>]

(***************************************************************************)
(* Inputs                                                                  *)
(***************************************************************************)
Kw(key, val) == [key |-> key, val |-> val]

\* keywords offered to filter, exclude and get
KeywordPool ==
  { Kw(<<"age">>, IntV(30)),
    Kw(<<"name">>, StrV(<<65, 108>>)),
    Kw(<<"age", "exact">>, IntV(30)),
    Kw(<<"age", "gte">>, IntV(25)),
    Kw(<<"age", "gt">>, IntV(25)),
    Kw(<<"age", "lt">>, IntV(25)),
    Kw(<<"age", "lte">>, IntV(25)),
    Kw(<<"age", "range">>, ListV(<<IntV(20), IntV(25)>>)),
    Kw(<<"age", "in">>, ListV(<<IntV(20), IntV(30)>>)),
    Kw(<<"age", "startswith">>, StrV(<<51>>)),
    Kw(<<"age", "contains">>, IntV(5)),
    Kw(<<"name", "exact">>, StrV(<<98, 111>>)),
    Kw(<<"name", "iexact">>, StrV(<<65, 76>>)),
    Kw(<<"name", "contains">>, StrV(<<108>>)),
    Kw(<<"name", "icontains">>, StrV(<<79>>)),
    Kw(<<"name", "startswith">>, StrV(<<65>>)),
    Kw(<<"name", "istartswith">>, StrV(<<97>>)),
    Kw(<<"name", "endswith">>, StrV(<<108>>)),
    Kw(<<"name", "iendswith">>, StrV(<<76>>)),
    Kw(<<"name", "in">>, ListV(<<StrV(<<65, 108>>), StrV(<<98, 111>>)>>)),
    Kw(<<"name", "gt">>, StrV(<<97>>)),
    Kw(<<"name", "gte">>, StrV(<<98, 111>>)),
    Kw(<<"name", "lt">>, StrV(<<65, 108, 97>>)),
    Kw(<<"name", "lte">>, StrV(<<65, 108>>)),
    Kw(<<"name", "range">>, ListV(<<StrV(<<65>>), StrV(<<97, 108>>)>>)),
    Kw(<<"age", "real">>, IntV(30)),
    Kw(<<"age", "real", "gte">>, IntV(25)),
    Kw(<<"age", "foo">>, IntV(1)),
    Kw(<<"age", "gt">>, StrV(<<97>>)),
    Kw(<<"age", "range">>, ListV(<<IntV(20)>>)),
    Kw(<<"foo">>, IntV(1)) }

\* keywords also offered in pairs
PairPool ==
  { Kw(<<"age", "gte">>, IntV(25)),
    Kw(<<"name">>, StrV(<<65, 108>>)),
    Kw(<<"age", "lt">>, IntV(25)),
    Kw(<<"age", "foo">>, IntV(1)) }

\* **kwargs: a dict keeps the order of its keys and holds each key once
KeywordSets ==
  {<<>>} \cup {<<k>> : k \in KeywordPool}
         \cup {p \in {<<k1, k2>> : k1 \in PairPool, k2 \in PairPool} : p[1].key # p[2].key}

\* instances offered to the mutation methods and as operands
Offered == {"h1", "h2", "h3", "w1", "c1"}
Operands == SeqsUpTo({"h1", "h3", "w1"}, 2)
Offers == SeqsUpTo(Offered, 2)

\* Configuration.ordering of the entity type, fixed when the type is registered
Orderings == {<<>>, <<Asc("age")>>, <<Asc("name"), Desc("age")>>}

\* arguments offered to earliest and latest
ExtremeArgs == {<<>>, <<Asc("age")>>, <<Desc("age")>>, <<Asc("name")>>}

\* arguments offered to order_by
OrderArgs ==
  {<<>>, <<Asc("age")>>, <<Desc("age")>>, <<Asc("name")>>, <<Desc("name")>>,
   <<Asc("name"), Desc("age")>>, <<Asc("age"), Asc("name")>>, <<Desc("age"), Desc("name")>>,
   <<Asc("foo")>>}


(***************************************************************************)
(* State of the collection model                                           *)
(***************************************************************************)
VARIABLES
  members,     \* the receiver ObjectList, as the list of its elements
  attached,    \* whether the receiver has a backend (self._db)
  stored,      \* the documents the backend holds for the entity type
  ordering,    \* object_class.config.ordering
  op,          \* the last operation called on the receiver and its arguments
  snap,        \* the list self.all() returned inside the last operation
  ret,         \* what the last operation returned or raised
  fetches      \* backend fetch calls made by the last operation

lvars == <<members, attached, stored, ordering, op, snap, ret, fetches>>

(***************************************************************************)
(* State of the bulk_save model                                            *)
(***************************************************************************)
VARIABLES
  pkey,        \* Object._pkey of each persistable entity as text; <<>> is None
  docs,        \* the documents the backend holds: [key, obj]
  nextKey,     \* the key the backend gives the next inserted document
  call,        \* the bulk_save call in progress and the position of abulk_save
  tasks,       \* the tasks asyncio.gather wrapped the asave coroutines in
  ready,       \* the event loop's queue of callbacks, first in first out
  outer,       \* the future gather returned to abulk_save
  returned     \* what bulk_save returned or raised

bvars == <<pkey, docs, nextKey, call, tasks, ready, outer, returned>>

(***************************************************************************)
(* State of the configuration model                                        *)
(***************************************************************************)
VARIABLES
  cfg,         \* the ObjectConfig instances: their sub-configurations and _objectclass
  klass,       \* the Object classes: whether the class statement succeeded, and their config
  cret         \* the last operation on a configuration or class and what it raised

cvars == <<cfg, klass, cret>>

(***************************************************************************)
(* State of the entity model                                               *)
(***************************************************************************)
VARIABLES
  ent,         \* the entities: whether constructed, their attribute values, their _pkey
  eret         \* the last operation on an entity and what it returned or raised

evars == <<ent, eret>>

(***************************************************************************)
(* State of the backend adapter model                                      *)
(***************************************************************************)
VARIABLES
  adp          \* the call of the Datacube adapter in progress

dvars == <<adp>>

(***************************************************************************)
(* State of the cache model                                                *)
(***************************************************************************)
VARIABLES
  cache,       \* the ObjectCache: max_size, clear_when_full and the register
  kret         \* the last call on the cache and what it returned or raised

kvars == <<cache, kret>>

(***************************************************************************)
(* State of the collection delete model                                    *)
(***************************************************************************)
VARIABLES
  del          \* the call of ObjectList.delete in progress: the members, the backend calls made, the outcome

gvars == <<del>>

(***************************************************************************)
(* State of the run report model                                           *)
(***************************************************************************)
VARIABLES
  heap,        \* the list objects: the one config.defaults holds and the ones callers passed
  rep,         \* the run reports constructed
  rret         \* the last call on a report and what it returned or raised

rvars == <<heap, rep, rret>>

(***************************************************************************)
(* State of the campaign run model                                         *)
(***************************************************************************)
VARIABLES
  cam          \* the campaign followed: its flag in memory and in the backend, and where its run stands

uvars == <<cam>>

yvars == <<dvars, kvars, gvars, rvars, uvars>>

\* every variable outside dvars
not_dvars == <<lvars, bvars, cvars, evars, kvars, gvars, rvars, uvars>>

\* every variable outside kvars
not_kvars == <<lvars, bvars, cvars, evars, dvars, gvars, rvars, uvars>>

\* every variable outside gvars
not_gvars == <<lvars, bvars, cvars, evars, dvars, kvars, rvars, uvars>>

\* every variable outside rvars
not_rvars == <<lvars, bvars, cvars, evars, dvars, kvars, gvars, uvars>>

\* every variable outside uvars
not_uvars == <<lvars, bvars, cvars, evars, dvars, kvars, gvars, rvars>>

xvars == <<cvars, evars, yvars>>

vars == <<lvars, bvars, xvars>>

\* the entities that can be persisted, and the classes they belong to
Persistable == {"b1", "b2", "c1", "c2"}

\* no bulk_save call in progress
NoCall == [mgr |-> "", objs |-> <<>>, kw |-> {}, pc |-> "idle", pk0 |-> [o \in Persistable |-> <<>>]]

\* the future gather returns, before gather is called
NoFuture == [state |-> "none", task |-> 0, nfinished |-> 0]

\* bulk_save returned None, or nothing is to report yet
BulkNone == [kind |-> "none", name |-> "", task |-> 0]

\* bulk_save raised name; task tells which task's exception it is (0: none)
BulkExc(name, task) == [kind |-> "exc", name |-> name, task |-> task]

BulkIdle ==
  /\ pkey = [o \in Persistable |-> <<>>]
  /\ docs = {}
  /\ nextKey = 1
  /\ call = NoCall
  /\ tasks = <<>>
  /\ ready = <<>>
  /\ outer = NoFuture
  /\ returned = BulkNone

(***************************************************************************)
(* Configurations (config.py) as values: a dict is the set of its          *)
(* <<key, value>> pairs, a tuple is a sequence.                            *)
(***************************************************************************)
BoolV(b) == [t |-> "bool", v |-> b]

\* a default that is a zero-argument factory, such as timezone.now
FactoryV(name) == [t |-> "factory", v |-> name]

\* the sub-configurations of ObjectConfig, in the order get_subconfigs lists them
Subconfigs == <<"attributes", "choices", "required", "defaults", "validators", "ordering">>

\* the sub-configurations that are dicts; the others are tuples
DictSubconfigs == {"attributes", "choices", "defaults", "validators"}

EMAIL == <<69, 77, 65, 73, 76>>
SMS == <<83, 77, 83>>

\* ObjectConfig.__new__: every sub-configuration at its class default, no object class
new_config ==
  [attributes |-> {}, choices |-> {}, required |-> <<>>, defaults |-> {},
   validators |-> {}, ordering |-> <<>>, objectclass |-> ""]

\* Human.config
HumanConfig ==
  [attributes |-> {<<"name", <<"str">>>>, <<"age", <<"int">>>>,
                   <<"is_cool", <<"bool">>>>, <<"friends", <<"list", "none">>>>},
   choices |-> {},
   required |-> <<"name", "age">>,
   defaults |-> {<<"is_cool", BoolV(TRUE)>>},
   validators |-> {},
   ordering |-> <<Asc("name"), Desc("age")>>,
   objectclass |-> "Human"]

\* CampaignMessage.config, with the attributes its validate() reads and one
\* of each other kind
CampaignMessageConfig ==
  [attributes |-> {<<"type", <<"str">>>>, <<"body", <<"str">>>>, <<"sender", <<"str">>>>,
                   <<"created_at", <<"datetime">>>>},
   choices |-> {<<"type", <<StrV(EMAIL), StrV(SMS)>>>>},
   required |-> <<"type", "body", "sender">>,
   defaults |-> {<<"created_at", FactoryV("timezone.now")>>},
   validators |-> {<<"type", <<"validate_not_blank", "min_max">>>>,
                   <<"body", <<"validate_not_blank", "min_max">>>>,
                   <<"sender", <<"validate_email_or_phone_number">>>>},
   ordering |-> <<Desc("created_at")>>,
   objectclass |-> "CampaignMessage"]

\* the configuration instances: those of Human and CampaignMessage, and two
\* made by new_config() for the classes still to be declared
ConfigIds == {"kH", "kM", "k1", "k2"}

\* the classes declared while the model runs, and the class each derives from
Declared == {"Woman", "Girl"}
Classes == {"Human", "CampaignMessage"} \cup Declared
Base(c) == IF c = "Girl" THEN "Woman" ELSE IF c = "Woman" THEN "Human" ELSE ""

\* a class statement that has not run, or raised
NoClass == [state |-> "new", config |-> ""]

\* nothing to report
NoCret ==
  [op |-> "idle", cls |-> "", config |-> "", field |-> "", exc |-> "", was |-> new_config]

ConfigIdle ==
  /\ cfg = [k \in ConfigIds |->
              IF k = "kH" THEN HumanConfig
              ELSE IF k = "kM" THEN CampaignMessageConfig
              ELSE new_config]
  /\ klass = [c \in Classes |->
                IF c = "Human" THEN [state |-> "prepared", config |-> "kH"]
                ELSE IF c = "CampaignMessage" THEN [state |-> "prepared", config |-> "kM"]
                ELSE NoClass]
  /\ cret = NoCret

\* an entity not constructed yet
NoEntity == [live |-> FALSE, attrs |-> {}, pkey |-> NoneV]

\* nothing to report
NoEret ==
  [op |-> "idle", ent |-> "", exc |-> "", name |-> "", arg |-> {}, val |-> {}, pkey |-> NoneV,
   now |-> 0, was |-> NoEntity]

EntityIdle ==
  /\ ent = [e \in {"p1", "m1"} |-> NoEntity]
  /\ eret = NoEret

\* no call of the adapter in progress
NoAdapterCall ==
  [op |-> "idle", pc |-> "idle", opted |-> FALSE, named |-> FALSE, attempts |-> 0,
   creates |-> 0, log |-> <<>>, exc |-> ""]

AdapterIdle == adp = NoAdapterCall

\* no call on the cache to report
NoKret == [op |-> "idle", obj |-> "", exc |-> "", was |-> {}]

\* the cache that InMemoryObjectMeta makes for a class: unbounded and empty
CacheIdle ==
  /\ cache = [max_size |-> -1, clear_when_full |-> FALSE, register |-> {}]
  /\ kret = NoKret

\* no call of ObjectList.delete in progress
NoDelete ==
  [pc |-> "idle", objs |-> <<>>, kw |-> {}, failing |-> {}, calls |-> <<>>, exc |-> ""]

DeleteIdle == del = NoDelete

\* a report not constructed yet
NoReport ==
  [live |-> FALSE, title |-> NoneV, events |-> "", created_at |-> NoneV,
   updated_at |-> NoneV, pkey |-> NoneV]

\* no call on a report to tell of
NoRret ==
  [op |-> "idle", rep |-> "", exc |-> "", log |-> <<>>, wire |-> {},
   was |-> [l \in {"default", "l1", "l2"} |-> <<>>], pkey |-> NoneV]

\* the class as imported: config.defaults["events"] is the empty list
ReportIdle ==
  /\ heap = [l \in {"default", "l1", "l2"} |-> <<>>]
  /\ rep = [r \in {"r1", "r2"} |-> NoReport]
  /\ rret = NoRret

\* a campaign that nobody runs: is_running is False, its declared default
NoRun ==
  [pc |-> "idle", caller |-> "", raise_exception |-> FALSE, pkey |-> FALSE,
   is_running |-> FALSE, stored |-> FALSE, e |-> "", exc |-> "", log |-> <<>>, runs |-> 0]

RunIdle == cam = NoRun

\* the variables of the later models at rest
LaterIdle == AdapterIdle /\ CacheIdle /\ DeleteIdle /\ ReportIdle /\ RunIdle

\* the variables of the other models at rest
ExtraIdle == ConfigIdle /\ EntityIdle /\ LaterIdle

Op(name, kw, objs, idx, attrs) ==
  [name |-> name, kw |-> kw, objs |-> objs, idx |-> idx, attrs |-> attrs]

\* between two calls: the caller holds no pending result
NoOp == Op("idle", <<>>, <<>>, 0, <<>>)
Idle == op = NoOp

\* the lists self.all() can return in the current state
Snapshots == {all_(s, ordering) : s \in Perms(AllSet(members, attached, stored))}

\* the lists all() can return on a detached collection holding seq
DetachedAll(seq) == {all_(s, ordering) : s \in Perms(Range(seq))}

\* no collection call in progress on an empty, detached collection
ListIdle ==
  /\ members = <<>>
  /\ attached = FALSE
  /\ stored = {}
  /\ ordering = <<>>
  /\ op = NoOp
  /\ snap = <<>>
  /\ ret = RetNone
  /\ fetches = 0

ListInit ==
  /\ members = <<>>
  /\ attached \in BOOLEAN
  /\ stored \in SUBSET Documents
  /\ ordering \in Orderings
  /\ op = NoOp
  /\ snap = <<>>
  /\ ret = RetNone
  /\ fetches = 0
  /\ BulkIdle
  /\ ExtraIdle

(***************************************************************************)
(* Typed mutation (lines 374-386, 572-582)                                 *)
(***************************************************************************)
\* what a mutation method does once __checktypes__ has run on offered
Mutate(name, offered, idx, result) ==
  /\ op' = Op(name, <<>>, offered, idx, <<>>)
  /\ snap' = <<>>
  /\ fetches' = 0
  /\ IF checktypes(offered)
     THEN /\ members' = result.val
          /\ ret' = result.ret
     ELSE /\ members' = members
          /\ ret' = Exc("TypeError")
  /\ UNCHANGED <<attached, stored, ordering, bvars, xvars>>

append(o) ==
  /\ Idle
  /\ Len(members) < MaxLen \/ ~checktypes(<<o>>)
  /\ Mutate("append", <<o>>, 0, [val |-> Append(members, o), ret |-> RetNone])

extend(objs) ==
  /\ Idle
  /\ Len(members) + Len(objs) <= MaxLen \/ ~checktypes(objs)
  /\ Mutate("extend", objs, 0, [val |-> members \o objs, ret |-> RetNone])

insert(i, o) ==
  /\ Idle
  /\ Len(members) < MaxLen \/ ~checktypes(<<o>>)
  /\ Mutate("insert", <<o>>, i,
            [val |-> SubSeq(members, 1, i) \o <<o>> \o SubSeq(members, i + 1, Len(members)),
             ret |-> RetNone])

\* self[i] = o, with i counted from 0; an index past the end raises IndexError
setitem(i, o) ==
  /\ Idle
  /\ Mutate("__setitem__", <<o>>, i,
         IF i < Len(members)
         THEN [val |-> [members EXCEPT ![i + 1] = o], ret |-> RetNone]
         ELSE [val |-> members, ret |-> Exc("IndexError")])

iadd(objs) ==
  /\ Idle
  /\ Len(members) + Len(objs) <= MaxLen \/ ~checktypes(objs)
  /\ Mutate("__iadd__", objs, 0, [val |-> members \o objs, ret |-> RetList(members \o objs)])


(***************************************************************************)
(* Queries (lines 78-184, 343-358)                                         *)
(***************************************************************************)
\* ObjectList.all(): fetch when attached, unite, order by config.ordering
all ==
  /\ Idle
  /\ \E sn \in Snapshots :
    /\ op' = Op("all", <<>>, <<>>, 0, <<>>)
    /\ snap' = sn
    /\ ret' = RetList(sn)
    /\ fetches' = fetch_all(attached, stored).calls
    /\ UNCHANGED <<members, attached, stored, ordering, bvars, xvars>>

\* ObjectList.filter(negate=negate, **kwargs) once self.all() returned sn
filter_(sn, kwargs, negate) ==
  IF kwargs = <<>> THEN RetList(sn) ELSE FilterLoop(sn, 1, kwargs, negate, <<>>)

filter(kwargs) ==
  /\ Idle
  /\ \E sn \in Snapshots :
    /\ op' = Op("filter", kwargs, <<>>, 0, <<>>)
    /\ snap' = sn
    /\ ret' = filter_(sn, kwargs, FALSE)
    /\ fetches' = fetch_all(attached, stored).calls
    /\ UNCHANGED <<members, attached, stored, ordering, bvars, xvars>>

\* ObjectList.exclude(**kwargs): filter(**kwargs, negate=True)
exclude(kwargs) ==
  /\ Idle
  /\ \E sn \in Snapshots :
    /\ op' = Op("exclude", kwargs, <<>>, 0, <<>>)
    /\ snap' = sn
    /\ ret' = filter_(sn, kwargs, TRUE)
    /\ fetches' = fetch_all(attached, stored).calls
    /\ UNCHANGED <<members, attached, stored, ordering, bvars, xvars>>

\* a get that never checks for several matches
get_first(filtered, al) ==
  IF Cardinality(Range(filtered)) = 0 THEN DoesNotExist(object_class) ELSE RetObj(al[1])

\* the rest of get() once filter returned the detached list filtered:
\* filtered.empty, filtered.count() and filtered.first() each read
\* filtered.all(); al is what the last of them returned
get_(filtered, al) ==
  IF Cardinality(Range(filtered)) = 0 THEN DoesNotExist(object_class)
  ELSE IF Cardinality(Range(filtered)) > 1 THEN MultipleObjectsReturned(object_class)
  ELSE RetObj(al[1])

get(kwargs) ==
  /\ Idle
  /\ op' = Op("get", kwargs, <<>>, 0, <<>>)
  /\ UNCHANGED <<members, attached, stored, ordering, bvars, xvars>>
  /\ IF kwargs = <<>>
     THEN /\ ret' = Exc("ValueError")
          /\ snap' = <<>>
          /\ fetches' = 0
     ELSE \E sn \in Snapshots :
            LET filtered == filter_(sn, kwargs, FALSE) IN
            /\ snap' = sn
            /\ fetches' = fetch_all(attached, stored).calls
            /\ IF filtered.kind = "exc" THEN ret' = filtered
               ELSE \E al \in DetachedAll(filtered.val) : ret' = get_(filtered.val, al)

\* ObjectList.order_by(*attrs): works on the receiver's own list, no all()
orderby(attrs) ==
  /\ Idle
  /\ op' = Op("order_by", <<>>, <<>>, 0, attrs)
  /\ snap' = <<>>
  /\ ret' = order_by(members, attrs)
  /\ fetches' = 0
  /\ UNCHANGED <<members, attached, stored, ordering, bvars, xvars>>

(***************************************************************************)
(* Set algebra (lines 411-459): Python sets of entities.  Object defines   *)
(* __hash__ but no __eq__, so set membership compares instances.           *)
(***************************************************************************)
\* whether a set treats the instances a and b as the same element
SameElement(a, b) == a = b

\* set(seq): one representative per class of SameElement
PySet(seq) == {seq[i] : i \in {j \in 1..Len(seq) : \A k \in 1..(j - 1) : ~SameElement(seq[k], seq[j])}}

\* whether x is an element of the set S
PyIn(x, S) == \E y \in S : SameElement(x, y)

set_union(S, other) == S \cup {x \in PySet(other) : ~PyIn(x, S)}
set_intersection(S, other) == {x \in S : PyIn(x, PySet(other))}
set_difference(S, other) == {x \in S : ~PyIn(x, PySet(other))}
set_symmetric_difference(S, other) ==
  set_difference(S, other) \cup {x \in PySet(other) : ~PyIn(x, S)}

\* clone.extend(result): the new detached list, or TypeError from __checktypes__
SetOp(name, other, result) ==
  /\ Idle
  /\ \E s \in Perms(result) :
    /\ op' = Op(name, <<>>, other, 0, <<>>)
    /\ snap' = <<>>
    /\ ret' = IF checktypes(s) THEN RetList(s) ELSE Exc("TypeError")
    /\ fetches' = 0
    /\ UNCHANGED <<members, attached, stored, ordering, bvars, xvars>>

union(other) == SetOp("union", other, set_union(PySet(members), other))
intersect(other) == SetOp("intersect", other, set_intersection(PySet(members), other))
difference(other) == SetOp("difference", other, set_difference(PySet(members), other))
symmetric_difference(other) ==
  SetOp("symmetric_difference", other, set_symmetric_difference(PySet(members), other))

\* the caller takes the result and is ready for the next call
return ==
  /\ ~Idle
  /\ op' = NoOp
  /\ snap' = <<>>
  /\ ret' = RetNone
  /\ fetches' = 0
  /\ UNCHANGED <<members, attached, stored, ordering, bvars, xvars>>

\* the arguments earliest() and latest() sort by: the ones given, or the
\* default ordering when none is given, each with its "-" prefix removed
strip(attrs, ord) ==
  LET given == IF attrs = <<>> THEN ord ELSE attrs IN
  [i \in 1..Len(given) |-> Asc(given[i].attr)]

\* ObjectList.first() once self.all() returned al
first_(al) == IF Len(al) = 0 THEN RetNone ELSE RetObj(al[1])

\* ObjectList.last() once self.all() returned al
last_(al) == IF Len(al) = 0 THEN RetNone ELSE RetObj(al[Len(al)])

\* ObjectList.earliest(*attrs) / latest(*attrs) once self.all() returned sn:
\* order_by gives a detached list, and first() or last() reads all() of
\* that list again, which returned al
extreme(sn, attrs, ord, al, late) ==
  LET sorted == order_by(sn, strip(attrs, ord)) IN
  IF sorted.kind = "exc" THEN sorted
  ELSE IF late THEN last_(al) ELSE first_(al)

ends(name, attrs, late) ==
  /\ Idle
  /\ \E sn \in Snapshots :
       LET sorted == order_by(sn, strip(attrs, ordering)) IN
       /\ op' = Op(name, <<>>, <<>>, 0, attrs)
       /\ snap' = sn
       /\ fetches' = fetch_all(attached, stored).calls
       /\ \E al \in (IF sorted.kind = "exc" THEN {<<>>} ELSE DetachedAll(sorted.val)) :
            ret' = extreme(sn, attrs, ordering, al, late)
       /\ UNCHANGED <<members, attached, stored, ordering, bvars, xvars>>

earliest(attrs) == ends("earliest", attrs, FALSE)

latest(attrs) == ends("latest", attrs, TRUE)

first ==
  /\ Idle
  /\ \E sn \in Snapshots :
       /\ op' = Op("first", <<>>, <<>>, 0, <<>>)
       /\ snap' = sn
       /\ ret' = first_(sn)
       /\ fetches' = fetch_all(attached, stored).calls
       /\ UNCHANGED <<members, attached, stored, ordering, bvars, xvars>>

last ==
  /\ Idle
  /\ \E sn \in Snapshots :
       /\ op' = Op("last", <<>>, <<>>, 0, <<>>)
       /\ snap' = sn
       /\ ret' = last_(sn)
       /\ fetches' = fetch_all(attached, stored).calls
       /\ UNCHANGED <<members, attached, stored, ordering, bvars, xvars>>

ListNext ==
  \/ \E o \in Offered : append(o)
  \/ \E objs \in Offers : extend(objs)
  \/ \E o \in Offered : \E i \in 0..Len(members) : insert(i, o)
  \/ \E o \in Offered : \E i \in 0..Len(members) : setitem(i, o)
  \/ \E objs \in Offers : iadd(objs)
  \/ all
  \/ \E kwargs \in KeywordSets : filter(kwargs)
  \/ \E kwargs \in KeywordSets : exclude(kwargs)
  \/ \E kwargs \in KeywordSets : get(kwargs)
  \/ \E attrs \in OrderArgs : orderby(attrs)
  \/ \E attrs \in ExtremeArgs : earliest(attrs)
  \/ \E attrs \in ExtremeArgs : latest(attrs)
  \/ first
  \/ last
  \/ \E other \in Operands : union(other)
  \/ \E other \in Operands : intersect(other)
  \/ \E other \in Operands : difference(other)
  \/ \E other \in Operands : symmetric_difference(other)
  \/ return

Spec == ListInit /\ [][ListNext]_vars


\* C26: on a non-empty collection earliest(attr) returns a member whose attr
\* is the minimum over the members and latest(attr) one whose attr is the
\* maximum; first() and last() return the members at the first and the last
\* position of the collection's current order; all four return None on an
\* empty collection.
C26_Ends ==
  /\ op.name \in {"earliest", "latest", "first", "last"} /\ snap = <<>> => ret = RetNone
  /\ op.name \in {"earliest", "latest"} /\ snap # <<>> /\ Len(op.attrs) = 1 =>
       /\ ret.kind = "obj"
       /\ ret.val[1] \in Range(snap)
       /\ \A m \in Range(snap) :
            ~KeyBefore(m, ret.val[1], op.attrs[1].attr, op.name = "latest")
  /\ op.name = "first" /\ members # <<>> /\ ~attached => ret = RetObj(members[1])
  /\ op.name = "last" /\ members # <<>> /\ ~attached => ret = RetObj(members[Len(members)])


(***************************************************************************)
(* Properties of the collection                                            *)
(***************************************************************************)
HumanInstances == {o \in Instances : ClassOf(o) = object_class}

\* C1: for every keyword set K, the empty one included, filter(K) and
\* exclude(K) partition the collection: the two results are disjoint and
\* their union is the collection the query ran on.
C1_FilterExcludePartition ==
  (op.name \in {"filter", "exclude"} /\ ret.kind = "list") =>
     LET other == filter_(snap, op.kw, op.name = "filter") IN
       /\ other.kind = "list"
       /\ Range(ret.val) \cap Range(other.val) = {}
       /\ Range(ret.val) \cup Range(other.val) = Range(snap)

\* a keyword attr=v or attr__op=v with a declared attribute and a supported op
C2_Supported(kw) ==
  /\ Len(kw.key) <= 2
  /\ kw.key[1] \in Attributes
  /\ Len(kw.key) = 2 => kw.key[2] \in available_lookups

\* the operator of kw can be applied to the attribute of o and the value
C2_Applicable(o, kw) ==
  Len(kw.key) = 2 =>
    lookup_evaluator(kw.key[2], ObjGetAttr(o, kw.key[1]), kw.val) \in {"true", "false"}

\* the operator of kw holds between the attribute of o and the value
C2_Holds(o, kw) ==
  IF Len(kw.key) = 1 THEN PyEq(ObjGetAttr(o, kw.key[1]), kw.val)
  ELSE lookup_evaluator(kw.key[2], ObjGetAttr(o, kw.key[1]), kw.val) = "true"

\* C2: filter(attr__op=v) returns exactly the members for which op holds
\* between the attribute and v, for int-valued and string-valued attributes;
\* attr=v keeps the members with attr = v; several keywords are conjoined.
C2_FilterSelects ==
  ( /\ op.name = "filter"
    /\ op.kw # <<>>
    /\ \A i \in 1..Len(op.kw) :
         C2_Supported(op.kw[i]) /\ \A m \in Range(snap) : C2_Applicable(m, op.kw[i]) ) =>
     /\ ret.kind = "list"
     /\ Range(ret.val) = {m \in Range(snap) : \A i \in 1..Len(op.kw) : C2_Holds(m, op.kw[i])}

\* a keyword whose last segment is neither a resolvable attribute nor a
\* supported operator, or whose operator cannot be applied, whatever entity
\* of the type it is tried on
C3_Malformed(kw) ==
  \/ Len(kw.key) = 1 /\ kw.key[1] \notin Attributes \cup {"pkey"}
  \/ /\ Len(kw.key) = 2
     /\ kw.key[1] \in Attributes
     /\ \A o \in HumanInstances :
          /\ ~ValHasAttr(ObjGetAttr(o, kw.key[1]), kw.key[2])
          /\ \/ kw.key[2] \notin available_lookups
             \/ lookup_evaluator(kw.key[2], ObjGetAttr(o, kw.key[1]), kw.val) \notin {"true", "false"}

\* C3: a filter or exclude call with a malformed keyword raises LookupError,
\* on every collection and whatever other keywords accompany it.
C3_MalformedRaisesLookupError ==
  ( /\ op.name \in {"filter", "exclude"}
    /\ \E i \in 1..Len(op.kw) : C3_Malformed(op.kw[i]) ) =>
     ret = Exc("LookupError")

\* the entities of the snapshot that the keywords of the call select
C4_Matching == {m \in Range(snap) : is_match(m, op.kw) = "true"}

C4_Post ==
  ( /\ op.name = "get"
    /\ op.kw # <<>>
    /\ \A m \in Range(snap) : is_match(m, op.kw) \in {"true", "false"} ) =>
     /\ Cardinality(C4_Matching) = 1 => ret.kind = "obj" /\ C4_Matching = {ret.val[1]}
     /\ Cardinality(C4_Matching) = 0 => ret = DoesNotExist(object_class)
     /\ Cardinality(C4_Matching) >= 2 => ret = MultipleObjectsReturned(object_class)

\* C4: get(K) returns the single entity matching K when exactly one matches,
\* raises the type's own DoesNotExist when none matches and the type's own
\* MultipleObjectsReturned when two or more match; the members of the
\* collection are unchanged in all three cases.
C4_GetCardinality ==
  [][op'.name = "get" => (members' = members /\ C4_Post')]_lvars

\* a get that found two matching entities on an attached collection
C4_Witness ==
  /\ op.name = "get"
  /\ attached
  /\ Cardinality(C4_Matching) >= 2
  /\ ret = MultipleObjectsReturned(object_class)

RECURSIVE C5_Decide(_, _, _, _)
\* whether the member at position a comes before the member at position b:
\* decided by the last attribute on which they differ, else by position
C5_Decide(attrs, k, a, b) ==
  IF k = 0 THEN a < b
  ELSE LET ka == ObjGetAttr(members[a], attrs[k].attr)
           kb == ObjGetAttr(members[b], attrs[k].attr)
       IN IF PyEq(ka, kb) THEN C5_Decide(attrs, k - 1, a, b)
          ELSE IF attrs[k].desc THEN PyLess(kb, ka) ELSE PyLess(ka, kb)

C5_Post ==
  ( /\ op.name = "order_by"
    /\ \A i \in 1..Len(op.attrs) : op.attrs[i].attr \in Attributes ) =>
     /\ ret.kind = "list"
     /\ \E pi \in Perms(1..Len(members)) :
          /\ ret.val = [i \in 1..Len(members) |-> members[pi[i]]]
          /\ \A i, j \in 1..Len(members) :
               i < j => C5_Decide(op.attrs, Len(op.attrs), pi[i], pi[j])

\* C5: order_by(a1, ..., an) returns the same members arranged as by one
\* stable sort per attribute in argument order: the last attribute decides,
\* earlier ones break ties, the receiver's order breaks the remaining ties;
\* the receiver itself keeps its order.
C5_OrderBySequentialSorts ==
  [][op'.name = "order_by" => (members' = members /\ C5_Post')]_lvars

\* order_by("age", "name") on two members that agree on the name and
\* arrive in descending age: the name decides nothing, the age breaks the tie
C5_Witness ==
  /\ op.name = "order_by"
  /\ op.attrs = <<Asc("age"), Asc("name")>>
  /\ members = <<"h1", "h3">>
  /\ ret = RetList(<<"h3", "h1">>)

C6_Mutations == {"append", "extend", "insert", "__setitem__", "__iadd__"}

C6_Homogeneous == \A i \in 1..Len(members) : ClassOf(members[i]) = object_class

\* C6: every member has exactly the collection's entity type; append,
\* extend, insert, assignment by index and in-place addition raise TypeError
\* when an offered element has another type and then change nothing.
C6_TypeHomogeneity ==
  [][ /\ C6_Homogeneous'
      /\ ( /\ op'.name \in C6_Mutations
           /\ \E i \in 1..Len(op'.objs) : ClassOf(op'.objs[i]) # object_class ) =>
            (ret' = Exc("TypeError") /\ members' = members) ]_lvars

\* extend offered an instance of the subclass after a valid one and was rejected
C6_Witness ==
  /\ op.name = "extend"
  /\ op.objs = <<"h2", "w1">>
  /\ members = <<"h1">>
  /\ ret = Exc("TypeError")

\* same concrete type and equal, set primary key
C7_SameEntity(a, b) ==
  ClassOf(a) = ClassOf(b) /\ ListPkey(a) # NoKey /\ ListPkey(a) = ListPkey(b)

\* C7: the set operations treat two entities as the same element exactly
\* when they have the same type and primary key: such a pair appears once
\* in a union and cancels in a difference.
C7_SetAlgebraByTypeAndKey ==
  /\ (op.name = "union" /\ ret.kind = "list") =>
       \A i, j \in 1..Len(ret.val) : C7_SameEntity(ret.val[i], ret.val[j]) => i = j
  /\ (op.name = "difference" /\ ret.kind = "list") =>
       \A i \in 1..Len(ret.val) : \A j \in 1..Len(op.objs) :
          ~C7_SameEntity(ret.val[i], op.objs[j])

RECURSIVE C8_Strict(_, _, _, _)
\* x comes strictly before y in the ordering ord: decided by the last
\* attribute of ord on which they differ
C8_Strict(ord, k, x, y) ==
  IF k = 0 THEN FALSE
  ELSE LET kx == ObjGetAttr(x, ord[k].attr)
           ky == ObjGetAttr(y, ord[k].attr)
       IN IF PyEq(kx, ky) THEN C8_Strict(ord, k - 1, x, y)
          ELSE IF ord[k].desc THEN PyLess(ky, kx) ELSE PyLess(kx, ky)

\* the query methods that start with self.all()
C8_Delegating == {"all", "filter", "exclude", "get", "earliest", "latest", "first", "last"}

C8_Post ==
  /\ fetches > 0 => (attached /\ op.name \in C8_Delegating)
  /\ op.name = "all" =>
       /\ ret.kind = "list"
       /\ Range(ret.val) = Range(members) \cup (IF attached THEN {Reconstruct(d) : d \in stored} ELSE {})
       /\ \A i, j \in 1..Len(ret.val) : ret.val[i] = ret.val[j] => i = j
       /\ \A i, j \in 1..Len(ret.val) :
            i < j => ~C8_Strict(ordering, Len(ordering), ret.val[j], ret.val[i])

BulkEntities == Persistable \cup {"h1"}

\* the classes whose manager bulk_save is called on
Managers == {"Book", "Campaign", "Human"}

\* the keyword arguments a caller passes on to save
KwNames == {"collection_name", "dowell_api_key"}

BulkOffers == SeqsUpTo(BulkEntities, MaxBulk)

\* how a save goes: validations pass and the backend accepts ("ok"),
\* run_validations raises ("invalid"), the backend returns no key on insert
\* or False on update ("rejected")
SaveOutcomes == {"ok", "invalid", "rejected"}

\* not self.pkey
NoPkey(o) == pkey[o] = <<>>

\* the entity has a document in the backend
Persisted(o) == \E d \in docs : d.obj = o

\* what a finished coroutine leaves: the exception it raised ("" for none),
\* whether save was called and how it ended, and the state of the entities
Outcome(exc, saved, pk, ds, nk) ==
  [exc |-> exc, saved |-> saved, pkey |-> pk, docs |-> ds, nextKey |-> nk]

\* DBObject.save(using=None, **kw) on entity o: collection_name is a required
\* keyword; validations run before the backend is called; an entity
\* without a primary key is inserted and takes str(pk), another is updated
save(o, kw, how) ==
  IF "collection_name" \notin kw
  THEN Outcome("TypeError", "failed", pkey, docs, nextKey)
  ELSE IF how = "invalid"
  THEN Outcome("ValidationError", "failed", pkey, docs, nextKey)
  ELSE IF how = "rejected"
  THEN Outcome("DatabaseError", "failed", pkey, docs, nextKey)
  ELSE IF NoPkey(o)
  THEN Outcome("", "ok", [pkey EXCEPT ![o] = IntToStr(nextKey)],
               docs \cup {[key |-> nextKey, obj |-> o]}, nextKey + 1)
  ELSE Outcome("", "ok", pkey, docs, nextKey)

\* DBObject.asave: return self.save(using=using, **kwargs), no await inside
DBObject_asave(o, kw, how) == save(o, kw, how)

\* DatacubeObject.asave: return super().asave(...) hands back the coroutine
\* of DBObject.asave without awaiting it, so its body never runs
DatacubeObject_asave(o, kw, how) == Outcome("", "no", pkey, docs, nextKey)

\* the body of the coroutine obj.asave(using=using, **kw)
asave(o, kw, how) ==
  IF ClassOf(o) = "Campaign" THEN DatacubeObject_asave(o, kw, how)
  ELSE DBObject_asave(o, kw, how)

\* whether the call obj.asave(using=using, **kw) binds: DatacubeObject.asave
\* takes the keyword dowell_api_key and no other, DBObject.asave takes any
asave_binds(o, kw) == ClassOf(o) = "Campaign" => kw = {"dowell_api_key"}

\* a callback of the loop
Callback(cb, task) == [cb |-> cb, task |-> task]

\* a loop that runs a new callback before the ones already waiting
call_soon_first(q, cb) == <<cb>> \o q

\* loop.call_soon: the callback goes to the end of the queue
call_soon(q, cb) == Append(q, cb)

RECURSIVE create_tasks(_, _, _)
\* gather: one task per coroutine, each task's first step scheduled in turn
create_tasks(q, i, n) ==
  IF i > n THEN q ELSE create_tasks(call_soon(q, Callback("step", i)), i + 1, n)

\* a task that has not run yet
Pending(o) == [obj |-> o, state |-> "pending", exc |-> "", saved |-> "no", key |-> <<>>]

\* bulk_save is over: the loop is closed, the caller has the outcome r
Finish(c, r) ==
  /\ call' = [c EXCEPT !.pc = "finished"]
  /\ returned' = r
  /\ tasks' = <<>>
  /\ ready' = <<>>
  /\ outer' = NoFuture

\* manager.bulk_save(*objs, **kw) up to the await in abulk_save: the checks
\* of the arguments, the coroutines, gather
bulk_save(mgr, objs, kw) ==
  /\ call.pc = "idle"
  /\ LET c == [mgr |-> mgr, objs |-> objs, kw |-> kw, pc |-> "awaiting", pk0 |-> pkey]
         todo == SelectSeq(objs, LAMBDA o : SupportsDB(ClassOf(o)))
     IN IF objs = <<>>
        THEN Finish(c, BulkExc("ValueError", 0))
        ELSE IF \E i \in 1..Len(objs) : ~IsSubclass(ClassOf(objs[i]), mgr)
        THEN Finish(c, BulkExc("TypeError", 0))
        ELSE IF \E i \in 1..Len(todo) : ~asave_binds(todo[i], kw)
        THEN Finish(c, BulkExc("TypeError", 0))
        ELSE IF todo = <<>>
        THEN Finish(c, BulkNone)
        ELSE /\ call' = c
             /\ returned' = BulkNone
             /\ tasks' = [i \in 1..Len(todo) |-> Pending(todo[i])]
             /\ ready' = create_tasks(<<>>, 1, Len(todo))
             /\ outer' = [state |-> "pending", task |-> 0, nfinished |-> 0]
  /\ UNCHANGED <<pkey, docs, nextKey, lvars, xvars>>

\* the loop runs the first step of a task: the coroutine has no await, so
\* it runs to its end and the task schedules its done callbacks
task_step ==
  /\ call.pc = "awaiting"
  /\ ready # <<>>
  /\ Head(ready).cb = "step"
  /\ \E how \in SaveOutcomes :
       LET i == Head(ready).task
           r == asave(tasks[i].obj, call.kw, how)
       IN /\ pkey' = r.pkey
          /\ docs' = r.docs
          /\ nextKey' = r.nextKey
          /\ tasks' = [tasks EXCEPT ![i] =
                         [obj |-> @.obj,
                          state |-> IF r.exc = "" THEN "result" ELSE "exception",
                          exc |-> r.exc,
                          saved |-> r.saved,
                          key |-> r.pkey[@.obj]]]
          /\ ready' = call_soon(Tail(ready), Callback("done", i))
  /\ UNCHANGED <<call, outer, returned, lvars, xvars>>

\* gather's callback on a finished task: the first exception settles the
\* outer future, else the last result does; either wakes abulk_save
done_callback ==
  /\ call.pc = "awaiting"
  /\ ready # <<>>
  /\ Head(ready).cb = "done"
  /\ LET i == Head(ready).task
         n == outer.nfinished + 1
     IN IF outer.state # "pending"
        THEN /\ outer' = [outer EXCEPT !.nfinished = n]
             /\ ready' = Tail(ready)
        ELSE IF tasks[i].state = "exception"
        THEN /\ outer' = [state |-> "exception", task |-> i, nfinished |-> n]
             /\ ready' = call_soon(Tail(ready), Callback("wakeup", 0))
        ELSE IF n = Len(tasks)
        THEN /\ outer' = [state |-> "result", task |-> 0, nfinished |-> n]
             /\ ready' = call_soon(Tail(ready), Callback("wakeup", 0))
        ELSE /\ outer' = [outer EXCEPT !.nfinished = n]
             /\ ready' = Tail(ready)
  /\ UNCHANGED <<pkey, docs, nextKey, call, tasks, returned, lvars, xvars>>

\* abulk_save resumes with the outer future's outcome and ends; asyncio.run
\* cancels the tasks that are not done, closes the loop and hands the
\* outcome to the caller of bulk_save
wakeup ==
  /\ call.pc = "awaiting"
  /\ ready # <<>>
  /\ Head(ready).cb = "wakeup"
  /\ call' = [call EXCEPT !.pc = "finished"]
  /\ returned' = IF outer.state = "exception"
                 THEN BulkExc(tasks[outer.task].exc, outer.task)
                 ELSE BulkNone
  /\ tasks' = [i \in 1..Len(tasks) |->
                 IF tasks[i].state = "pending"
                 THEN [tasks[i] EXCEPT !.state = "cancelled"]
                 ELSE tasks[i]]
  /\ ready' = <<>>
  /\ outer' = outer
  /\ UNCHANGED <<pkey, docs, nextKey, lvars, xvars>>

\* the caller takes the outcome and is ready for the next call
bulk_return ==
  /\ call.pc = "finished"
  /\ call' = NoCall
  /\ returned' = BulkNone
  /\ tasks' = <<>>
  /\ ready' = <<>>
  /\ outer' = NoFuture
  /\ UNCHANGED <<pkey, docs, nextKey, lvars, xvars>>

BulkInit ==
  /\ members = <<>>
  /\ attached = FALSE
  /\ stored = {}
  /\ ordering = <<>>
  /\ op = NoOp
  /\ snap = <<>>
  /\ ret = RetNone
  /\ fetches = 0
  /\ BulkIdle
  /\ ExtraIdle

BulkNext ==
  \/ \E mgr \in Managers : \E objs \in BulkOffers : \E kw \in SUBSET KwNames :
       bulk_save(mgr, objs, kw)
  \/ task_step
  \/ done_callback
  \/ wakeup
  \/ bulk_return

SpecBulk == BulkInit /\ [][BulkNext]_vars


(***************************************************************************)
(* Properties of bulk_save                                                 *)
(***************************************************************************)
\* the entities given to the call are persistable and were never saved
C9_NewPersistable ==
  /\ call.objs # <<>>
  /\ \A i \in 1..Len(call.objs) :
       SupportsDB(ClassOf(call.objs[i])) /\ call.pk0[call.objs[i]] = <<>>

\* C9: a bulk_save of new persistable entities that completes leaves every
\* one of them persisted, with a non-null primary key, distinct entities
\* holding distinct keys.
C9_BulkSavePersistsAll ==
  (call.pc = "finished" /\ returned.kind = "none" /\ C9_NewPersistable) =>
     \A i \in 1..Len(call.objs) :
        /\ ~NoPkey(call.objs[i])
        /\ Persisted(call.objs[i])
        /\ \A j \in 1..Len(call.objs) :
             call.objs[i] # call.objs[j] => pkey[call.objs[i]] # pkey[call.objs[j]]

\* the tasks whose save raised
C10_Failed == {i \in 1..Len(tasks) : tasks[i].saved = "failed"}

\* C10: when a save of a bulk_save fails, the caller gets the exception only
\* after every save of the call was attempted and has finished; it is the
\* exception of the first failing save; the entities whose save succeeded
\* keep their document and their primary key.
C10_FailureAfterAllSaves ==
  (call.pc = "finished" /\ C10_Failed # {}) =>
     /\ Len(tasks) = Len(call.objs)
     /\ \A i \in 1..Len(tasks) :
          tasks[i].state \in {"result", "exception"} /\ tasks[i].saved # "no"
     /\ \E f \in C10_Failed :
          /\ \A g \in C10_Failed : f <= g
          /\ returned = BulkExc(tasks[f].exc, f)
     /\ \A i \in 1..Len(tasks) :
          tasks[i].saved = "ok" =>
             /\ tasks[i].key # <<>>
             /\ pkey[tasks[i].obj] = tasks[i].key
             /\ \E d \in docs : d.obj = tasks[i].obj /\ IntToStr(d.key) = tasks[i].key

\* the first of two saves failed, the second inserted its entity, and the
\* caller got the first one's exception
C10_Witness ==
  /\ call.pc = "finished"
  /\ Len(tasks) = 2
  /\ tasks[1].saved = "failed"
  /\ tasks[2].saved = "ok"
  /\ call.pk0[tasks[2].obj] = <<>>
  /\ ~NoPkey(tasks[2].obj)
  /\ returned = BulkExc(tasks[1].exc, 1)

(***************************************************************************)
(* Binding a configuration to an Object class: ObjectMeta.__init__         *)
(* (bases.py 31-71), ObjectConfig.__setattr__ and validate (config.py      *)
(* 101-108, 179-288), CampaignMessage.validate (campaigns/dbobjects.py     *)
(* 820-828).                                                               *)
(***************************************************************************)
\* the keys of a dict
Keys(d) == {p[1] : p \in d}

\* d[key]
Get(d, key) == (CHOOSE p \in d : p[1] = key)[2]

\* bool(v) for the value v of sub-configuration f
Truthy(f, v) == IF f \in DictSubconfigs THEN v # {} ELSE v # <<>>

\* the attribute names a sub-configuration refers to, "-" stripped
Names(f, v) ==
  IF f \in DictSubconfigs THEN Keys(v)
  ELSE IF f = "ordering" THEN {v[i].attr : i \in 1..Len(v)}
  ELSE Range(v)

\* the type of a value; a factory default is called first
TypeOf(x) == IF x.t = "factory" THEN "datetime" ELSE x.t

\* isinstance(x, types): a bool is an int as well
IsInstance(x, types) ==
  \E i \in 1..Len(types) : types[i] = TypeOf(x) \/ (types[i] = "int" /\ TypeOf(x) = "bool")

\* ObjectConfig.validate(): the exception it raises, "" for none
validate(conf) ==
  IF \E i \in 2..Len(Subconfigs) :
       ~(Names(Subconfigs[i], conf[Subconfigs[i]]) \subseteq Keys(conf.attributes))
  THEN "UnregisteredAttributeError"
  ELSE IF \E f \in {"required", "ordering"} :
            \E i, j \in 1..Len(conf[f]) : i # j /\ conf[f][i] = conf[f][j]
  THEN "Exception"
  ELSE IF \E p \in conf.choices : Len(p[2]) < 2
  THEN "Exception"
  ELSE IF \E p \in conf.choices :
            \E i \in 1..Len(p[2]) : ~IsInstance(p[2][i], Get(conf.attributes, p[1]))
  THEN "TypeError"
  ELSE IF \E i \in 1..Len(conf.required) : conf.required[i] \in Keys(conf.defaults)
  THEN "Exception"
  ELSE IF \E p \in conf.defaults : ~IsInstance(p[2], Get(conf.attributes, p[1]))
  THEN "TypeError"
  ELSE ""

RECURSIVE Ancestors(_)
\* the classes of cls.mro() that have a config, reversed: the root first,
\* the class itself last
Ancestors(c) == IF c = "" THEN <<>> ELSE Ancestors(Base(c)) \o <<c>>

\* the inner loop of ObjectMeta.__init__ for one class of the mro: each of
\* its sub-configurations goes to the new config unless that one is set
fill(conf, sub) ==
  [f \in DOMAIN conf |->
     IF f = "objectclass" \/ Truthy(f, conf[f]) THEN conf[f] ELSE sub[f]]

RECURSIVE merge(_, _, _)
\* the loop over the reversed mro; the last class is the one being declared
merge(conf, chain, i) ==
  IF i > Len(chain) THEN conf
  ELSE IF i = Len(chain) THEN fill(conf, conf)
  ELSE merge(fill(conf, cfg[klass[chain[i]].config]), chain, i + 1)

\* a check that never finds a configuration in use
in_use_never(conf) == FALSE

\* cls.config._objectclass is set
in_use(conf) == conf.objectclass # ""

Cret(name, c, k, f, exc, was) ==
  [op |-> name, cls |-> c, config |-> k, field |-> f, exc |-> exc, was |-> was]

\* the class statement 'class c(Base(c)): config = k'; k may be the config
\* the base class already uses, which is what a class without a config of
\* its own inherits
class(c, k) ==
  /\ cret = NoCret
  /\ klass[c].state = "new"
  /\ klass[Base(c)].state = "prepared"
  /\ IF in_use(cfg[k])
     THEN /\ cret' = Cret("class", c, k, "", "ImproperlyConfigured", cfg[k])
          /\ UNCHANGED <<cfg, klass>>
     ELSE LET merged == merge(cfg[k], Ancestors(c), 1)
              exc == validate(merged)
          IN /\ cret' = Cret("class", c, k, "", exc, cfg[k])
             /\ cfg' = [cfg EXCEPT ![k] =
                          IF exc = "" THEN [merged EXCEPT !["objectclass"] = c] ELSE merged]
             /\ klass' = IF exc = "" THEN [klass EXCEPT ![c] = [state |-> "prepared", config |-> k]]
                         ELSE klass
  /\ UNCHANGED <<lvars, bvars, evars, yvars>>

\* the values assigned to the sub-configurations of a config
Assignable(f) ==
  CASE f = "attributes" -> {{}, {<<"name", <<"str">>>>, <<"age", <<"int">>>>}}
    [] f = "defaults" -> {{}, {<<"age", IntV(1)>>}}
    [] f = "ordering" -> {<<>>, <<Desc("age")>>, <<Asc("foo")>>}

\* config.f = v: ObjectConfig.__setattr__
setattr_config(k, f, v) ==
  /\ cret = NoCret
  /\ IF cfg[k].objectclass # ""
     THEN /\ cret' = Cret("setattr", "", k, f, "ImproperlyConfigured", cfg[k])
          /\ cfg' = cfg
     ELSE /\ cret' = Cret("setattr", "", k, f, "", cfg[k])
          /\ cfg' = [cfg EXCEPT ![k][f] = v]
  /\ UNCHANGED <<klass, lvars, bvars, evars, yvars>>

\* CampaignMessage.validate() on a message whose type is t, as run by the
\* constructor, by run_validations and by save
CampaignMessage_validate(t) ==
  /\ cret = NoCret
  /\ cret' = Cret("validate", "CampaignMessage", "kM", "", "", cfg["kM"])
  /\ cfg' = IF t = NoneV THEN cfg
            ELSE [cfg EXCEPT !["kM"]["validators"] =
                    {p \in @ : p[1] # "sender"} \cup
                    {<<"sender", IF Lower(t.v) = Lower(EMAIL) THEN <<"is_email">>
                                 ELSE <<"is_phonenumber">>>>}]
  /\ UNCHANGED <<klass, lvars, bvars, evars, yvars>>

\* the caller goes on
config_return ==
  /\ cret # NoCret
  /\ cret' = NoCret
  /\ UNCHANGED <<cfg, klass, lvars, bvars, evars, yvars>>

ConfigInit ==
  /\ ListInit
  /\ attached = FALSE
  /\ stored = {}
  /\ ordering = <<>>

ConfigNext ==
  \/ \E c \in Declared : \E k \in ConfigIds : class(c, k)
  \/ \E k \in ConfigIds : \E f \in {"attributes", "defaults", "ordering"} :
       \E v \in Assignable(f) : setattr_config(k, f, v)
  \/ \E t \in {NoneV, StrV(EMAIL), StrV(SMS)} : CampaignMessage_validate(t)
  \/ config_return

SpecConfig == ConfigInit /\ [][ConfigNext]_vars


(***************************************************************************)
(* Properties of the configurations                                        *)
(***************************************************************************)
\* C11: a configuration is bound to one class and stays bound to it; a class
\* statement whose config is already in use (its own base class's config
\* included) raises ImproperlyConfigured and changes no binding.
C11_OneConfigOneClass ==
  [][ /\ \A k \in ConfigIds :
           cfg[k].objectclass # "" => cfg'[k].objectclass = cfg[k].objectclass
      /\ \A c \in Classes :
           klass'[c].state = "prepared" =>
              /\ cfg'[klass'[c].config].objectclass = c
              /\ \A d \in Classes \ {c} :
                   klass'[d].state = "prepared" => klass'[d].config # klass'[c].config
      /\ (cret'.op = "class" /\ cfg[cret'.config].objectclass # "") =>
           (cret'.exc = "ImproperlyConfigured" /\ cfg' = cfg /\ klass' = klass) ]_vars

\* Woman declared without a config of its own: the class statement raised
C11_Witness ==
  /\ cret.op = "class"
  /\ cret.cls = "Woman"
  /\ cret.config = "kH"
  /\ cret.exc = "ImproperlyConfigured"
  /\ cfg["kH"].objectclass = "Human"
  /\ klass["Woman"].state = "new"

\* C12: the sub-configurations of a bound configuration never change:
\* assigning one raises ImproperlyConfigured, and no operation on an entity
\* alters one.
C12_BoundConfigFrozen ==
  [][ /\ \A k \in ConfigIds : cfg[k].objectclass # "" => cfg'[k] = cfg[k]
      /\ (cret'.op = "setattr" /\ cfg[cret'.config].objectclass # "") =>
           (cret'.exc = "ImproperlyConfigured" /\ cfg' = cfg) ]_vars

\* C13: after a class statement every sub-configuration the config had set
\* is as it was, and every one it had left empty has the value it has in
\* the config of the base class.
C13_InheritFromSuperclass ==
  (cret.op = "class" /\ cret.exc = "") =>
     \A i \in 1..Len(Subconfigs) :
        LET f == Subconfigs[i] IN
          cfg[cret.config][f] =
             IF Truthy(f, cret.was[f]) THEN cret.was[f]
             ELSE cfg[klass[Base(cret.cls)].config][f]


(***************************************************************************)
(* Entities: ObjectConfig.filter_attrs (config.py 291-330), Object.__init__ *)
(* and __setattr__ (bases.py 129-158, 271-288), run_validations (bases.py  *)
(* 226-255), InMemoryObject.__init__ (types/inmemory.py 74-79).            *)
(***************************************************************************)
\* the entities followed: p1 is a Human, m1 a CampaignMessage
EntityIds == {"p1", "m1"}
EntityClass(e) == IF e = "p1" THEN "Human" ELSE "CampaignMessage"

\* cls.config of the entity's class
ConfigOf(e) == cfg[klass[EntityClass(e)].config]

\* the order in which the attributes are declared in config.attributes
AttributeOrder ==
  <<"name", "age", "is_cool", "friends", "type", "body", "sender", "created_at">>

\* config.attributes.keys(), in order
attribute_names(conf) == SelectSeq(AttributeOrder, LAMBDA a : a \in Keys(conf.attributes))

\* a datetime; the model tells them apart by a number
DateV(n) == [t |-> "datetime", v |-> n]

\* the Null class of config.py: a value that is not set
Null == [t |-> "null", v |-> 0]

\* a keyword that is not passed
Absent == [t |-> "absent", v |-> 0]

\* the times timezone.now can return
Clock == {1, 2}

\* texts used as values
Al == <<65, 108>>
XX == <<88, 88>>
Hi == <<104, 105>>
Body10 == <<48, 49, 50, 51, 52, 53, 54, 55, 56, 57>>
Mail == <<97, 64, 98, 46, 99>>
Phone == <<49, 50, 51, 52, 53, 54>>
Zz == <<122, 122>>

\* the dict of the keywords passed, from the choice made for each name
Passed(choice) == {<<a, choice[a]>> : a \in {b \in DOMAIN choice : choice[b].t # "absent"}}

\* keyword arguments offered to Human(...)
HumanKwargs ==
  {Passed([name |-> n, age |-> a, is_cool |-> c, friends |-> f, foo |-> x]) :
     n \in {Absent, StrV(Al), IntV(5), NoneV},
     a \in {Absent, IntV(30), BoolV(TRUE), NoneV},
     c \in {Absent, BoolV(FALSE)},
     f \in {Absent, NoneV, ListV(<<>>)},
     x \in {Absent, IntV(1)}}

\* keyword arguments offered to CampaignMessage(...)
MessageKwargs ==
  {Passed([type |-> t, body |-> b, sender |-> s, created_at |-> d]) :
     t \in {Absent, StrV(EMAIL), StrV(SMS), StrV(XX), NoneV},
     b \in {Absent, StrV(Body10), StrV(Hi)},
     s \in {Absent, StrV(Mail), StrV(Phone), StrV(Zz)},
     d \in {Absent, DateV(1)}}

Kwargs(e) == IF e = "p1" THEN HumanKwargs ELSE MessageKwargs

\* ObjectConfig.get_default_for: the default, called when it is a factory
get_default_for(conf, a, now) ==
  IF a \notin Keys(conf.defaults) THEN NoneV
  ELSE IF Get(conf.defaults, a).t = "factory" THEN DateV(now)
  ELSE Get(conf.defaults, a)

\* a lookup that keeps a passed None whatever the allowed types
get_keep_none(conf, attrs, a) ==
  IF a \notin Keys(attrs) THEN Null ELSE Get(attrs, a)

\* attrs.get(a, Null), a None becoming Null when None is not an allowed type
get_or_null(conf, attrs, a) ==
  IF a \notin Keys(attrs) THEN Null
  ELSE IF Get(attrs, a).t = "none" /\ ~IsInstance(NoneV, Get(conf.attributes, a)) THEN Null
  ELSE Get(attrs, a)

RECURSIVE filter_loop(_, _, _, _, _, _)
\* the loop of filter_attrs over the declared attributes
filter_loop(conf, attrs, names, i, filtered, now) ==
  IF i > Len(names) THEN [exc |-> "", name |-> "", val |-> filtered]
  ELSE LET attr == get_or_null(conf, attrs, names[i]) IN
       IF attr.t = "null" /\ names[i] \in Range(conf.required)
       THEN [exc |-> "AttributeRequired", name |-> names[i], val |-> {}]
       ELSE filter_loop(conf, attrs, names, i + 1,
                        filtered \cup {<<names[i], IF attr.t = "null"
                                                   THEN get_default_for(conf, names[i], now)
                                                   ELSE attr>>},
                        now)

\* ObjectConfig.filter_attrs(attrs)
filter_attrs(conf, attrs, now) == filter_loop(conf, attrs, attribute_names(conf), 1, {}, now)

\* the types whose instances live in memory only (InMemoryObject)
InMemory(c) == c = "Human"

\* the identifiers uuid.uuid4() can return
UUIDs == {<<117, 49>>, <<117, 50>>}

\* an assignment check in which a bool is not taken for an int
setattr_check_exact(conf, a, x) ==
  IF a \notin Keys(conf.attributes) THEN "UnregisteredAttributeError"
  ELSE IF x.t = "none" THEN ""
  ELSE IF x.t \notin Range(Get(conf.attributes, a)) THEN "TypeError"
  ELSE ""

\* Object.__setattr__ for a name other than _pkey: the exception it raises,
\* "" when the value is stored
setattr_check(conf, a, x) ==
  IF a \notin Keys(conf.attributes) THEN "UnregisteredAttributeError"
  ELSE IF x.t = "none" THEN ""
  ELSE IF ~IsInstance(x, Get(conf.attributes, a)) THEN "TypeError"
  ELSE IF /\ a \in Keys(conf.choices)
          /\ Get(conf.choices, a) # <<>>
          /\ x \notin Range(Get(conf.choices, a))
       THEN "ValueError"
  ELSE ""

RECURSIVE init_setattrs(_, _, _, _)
\* the loop of Object.__init__ that sets every filtered attribute: the first
\* exception raised and the attribute it is about
init_setattrs(conf, filtered, names, i) ==
  IF i > Len(names) THEN [exc |-> "", name |-> ""]
  ELSE IF setattr_check(conf, names[i], Get(filtered, names[i])) # ""
       THEN [exc |-> setattr_check(conf, names[i], Get(filtered, names[i])), name |-> names[i]]
  ELSE init_setattrs(conf, filtered, names, i + 1)

\* bool(x) is false
Falsy(x) ==
  \/ x.t = "none"
  \/ x.t \in {"str", "list"} /\ x.v = <<>>
  \/ x.t = "int" /\ x.v = 0
  \/ x.t = "bool" /\ x.v = FALSE

\* min_length and max_length of the MinMaxLengthValidator declared for an attribute
MinMax(a) == IF a = "type" THEN <<3, 5>> ELSE <<10, 5000>>

\* is_email, for the texts of the model: one "@" inside, and a "." inside
\* what follows it
is_email(s) ==
  \E i \in 2..(Len(s) - 1) :
    /\ s[i] = 64
    /\ \A j \in 1..Len(s) : s[j] = 64 => j = i
    /\ \E j \in (i + 2)..(Len(s) - 1) : s[j] = 46

\* is_phonenumber, for texts without separators or "+": re.match finds three
\* groups of two to four digits at the start
is_phonenumber(s) == Len(s) >= 6 /\ \A i \in 1..6 : s[i] \in 48..57

\* calling a validator of config.validators on a value raises
Raises(validator, a, x) ==
  CASE validator = "validate_not_blank" -> Falsy(x)
    [] validator = "min_max" ->
         \/ MinMax(a)[1] # 0 /\ Len(x.v) < MinMax(a)[1]
         \/ MinMax(a)[2] # 0 /\ Len(x.v) > MinMax(a)[2]
    [] validator = "validate_email_or_phone_number" -> ~is_email(x.v) /\ ~is_phonenumber(x.v)
    [] OTHER -> FALSE   \* is_email and is_phonenumber return a bool and never raise

\* validate() of the class: config.validators when it returns
validators_after_validate(c, conf, attrs) ==
  IF c = "CampaignMessage" /\ Get(attrs, "type").t # "none"
  THEN {p \in conf.validators : p[1] # "sender"} \cup
       {<<"sender", IF Lower(Get(attrs, "type").v) = Lower(EMAIL) THEN <<"is_email">>
                    ELSE <<"is_phonenumber">>>>}
  ELSE conf.validators

\* the keys of the errors that the validators of run_validations collect
validator_errors(validators, attrs) ==
  {a \in Keys(validators) :
     /\ a \in Keys(attrs)
     /\ Get(attrs, a).t # "none"
     /\ \E i \in 1..Len(Get(validators, a)) : Raises(Get(validators, a)[i], a, Get(attrs, a))}

\* Object.run_validations: the exception raised and config.validators afterwards
run_validations(c, conf, attrs) ==
  [exc |-> IF validator_errors(validators_after_validate(c, conf, attrs), attrs) # {}
           THEN "ValidationError" ELSE "",
   validators |-> validators_after_validate(c, conf, attrs)]

\* the report of an operation on an entity
Eret(o, e, exc, name, arg, val, pk, now, was) ==
  [op |-> o, ent |-> e, exc |-> exc, name |-> name, arg |-> arg, val |-> val, pkey |-> pk,
   now |-> now, was |-> was]

\* cls.config.filter_attrs(attrs) called on the configuration of a type
call_filter_attrs(e, attrs, now) ==
  /\ eret = NoEret
  /\ LET f == filter_attrs(ConfigOf(e), attrs, now) IN
       eret' = Eret("filter_attrs", e, f.exc, f.name, attrs, f.val, NoneV, now, ent[e])
  /\ UNCHANGED <<ent, cvars, lvars, bvars, yvars>>

\* Object.__init__ with the _pkey that __new__ set, then the extra step of
\* InMemoryObject.__init__: the exception, the attributes, the _pkey and
\* config.validators afterwards
Object_init(c, conf, attrs, pk, now, uuid) ==
  LET f == filter_attrs(conf, attrs, now)
      s == init_setattrs(conf, f.val, attribute_names(conf), 1)
      v == run_validations(c, conf, f.val)
  IN IF f.exc # "" THEN [exc |-> f.exc, name |-> f.name, attrs |-> {}, pkey |-> pk,
                         validators |-> conf.validators]
     ELSE IF s.exc # "" THEN [exc |-> s.exc, name |-> s.name, attrs |-> {}, pkey |-> pk,
                              validators |-> conf.validators]
     ELSE IF pk.t = "none" /\ v.exc # ""
          THEN [exc |-> v.exc, name |-> "", attrs |-> {}, pkey |-> pk,
                validators |-> v.validators]
     ELSE [exc |-> "", name |-> "", attrs |-> f.val,
           pkey |-> IF InMemory(c) THEN StrV(uuid) ELSE pk,
           validators |-> IF pk.t = "none" THEN v.validators ELSE conf.validators]

\* e = T(**attrs); the model follows one entity in a behaviour
construct(e, attrs, now, uuid) ==
  /\ eret = NoEret
  /\ \A x \in EntityIds : ~ent[x].live
  /\ LET r == Object_init(EntityClass(e), ConfigOf(e), attrs, NoneV, now, uuid) IN
       /\ eret' = Eret("construct", e, r.exc, r.name, attrs, r.attrs, r.pkey, now, ent[e])
       /\ ent' = IF r.exc = ""
                 THEN [ent EXCEPT ![e] = [live |-> TRUE, attrs |-> r.attrs, pkey |-> r.pkey]]
                 ELSE ent
       /\ cfg' = [cfg EXCEPT ![klass[EntityClass(e)].config].validators = r.validators]
  /\ UNCHANGED <<klass, cret, lvars, bvars, yvars>>

\* the caller goes on
entity_return ==
  /\ eret # NoEret
  /\ eret' = NoEret
  /\ UNCHANGED <<ent, cvars, lvars, bvars, yvars>>

\* the assignments e.name = value offered to an entity
Assignments(e) ==
  IF e = "p1"
  THEN {<<"name", StrV(Zz)>>, <<"name", IntV(5)>>, <<"name", NoneV>>,
        <<"age", BoolV(TRUE)>>, <<"age", StrV(Al)>>,
        <<"friends", ListV(<<>>)>>, <<"foo", IntV(1)>>, <<"pkey", StrV(Zz)>>}
  ELSE {<<"type", StrV(EMAIL)>>, <<"type", StrV(XX)>>, <<"type", IntV(5)>>,
        <<"type", NoneV>>, <<"body", StrV(Hi)>>, <<"sender", StrV(Zz)>>,
        <<"created_at", NoneV>>, <<"foo", IntV(1)>>, <<"pkey", StrV(Zz)>>}

\* d[a] = x on a dict
Put(d, a, x) == {p \in d : p[1] # a} \cup {<<a, x>>}

\* e.a = x: Object.__setattr__
assign(e, a, x) ==
  /\ eret = NoEret
  /\ ent[e].live
  /\ eret' = Eret("assign", e, setattr_check(ConfigOf(e), a, x), a, {<<a, x>>}, {}, NoneV, 0,
                ent[e])
  /\ ent' = IF setattr_check(ConfigOf(e), a, x) = ""
            THEN [ent EXCEPT ![e].attrs = Put(@, a, x)]
            ELSE ent
  /\ UNCHANGED <<cvars, lvars, bvars, yvars>>

(***************************************************************************)
(* Persistence of an entity: DBObject.save and delete (types/db.py         *)
(* 390-449), DatacubeDB.insert, update and delete (datacube/db.py 109-228),*)
(* to_dbvalue and from_dbvalue (types/db.py 142-266).                      *)
(***************************************************************************)
\* the identifiers the backend gives to inserted documents
DocIds == {<<100, 49>>, <<100, 50>>}

\* how the backend answers: it does what is asked, or raises
Answers == {"ok", "error"}

\* a save that takes the identifier the backend returns on every call
pkey_after_save_always(pk, id) == StrV(id)

\* _pkey after a save the backend accepted: str(pk) of the insert when the
\* entity had no primary key, untouched by an update
pkey_after_save(pk, id) == IF Falsy(pk) THEN StrV(id) ELSE pk

\* DBObject.save through DatacubeObject.save
DBObject_save(e, answer, id) ==
  /\ eret = NoEret
  /\ ent[e].live
  /\ ~InMemory(EntityClass(e))
  /\ LET v == run_validations(EntityClass(e), ConfigOf(e), ent[e].attrs)
         exc == IF v.exc # "" THEN v.exc
                ELSE IF answer = "error" THEN "DatabaseError"
                ELSE ""
     IN /\ cfg' = [cfg EXCEPT ![klass[EntityClass(e)].config].validators = v.validators]
        /\ ent' = IF exc = ""
                  THEN [ent EXCEPT ![e].pkey = pkey_after_save(@, id)]
                  ELSE ent
        /\ eret' = Eret("save", e, exc, "", {}, {},
                        IF exc = "" THEN pkey_after_save(ent[e].pkey, id) ELSE ent[e].pkey,
                        0, ent[e])
  /\ UNCHANGED <<klass, cret, lvars, bvars, yvars>>

\* DBObject.delete through DatacubeObject.delete: the backend refuses an
\* entity without a primary key; `del self` unbinds the local name only
DBObject_delete(e, answer) ==
  /\ eret = NoEret
  /\ ent[e].live
  /\ ~InMemory(EntityClass(e))
  /\ eret' = Eret("delete", e,
                  IF Falsy(ent[e].pkey) THEN "DeletionError"
                  ELSE IF answer = "error" THEN "DatabaseError"
                  ELSE "",
                  "", {}, {}, ent[e].pkey, 0, ent[e])
  /\ UNCHANGED <<ent, cvars, lvars, bvars, yvars>>

\* T.manager.bulk_save([e], **kw): an in-memory entity is left out of the
\* tasks; the coroutine that DatacubeObject.asave returns is never awaited,
\* so save does not run
manager_bulk_save(e, kw) ==
  /\ eret = NoEret
  /\ ent[e].live
  /\ eret' = Eret("bulk_save", e,
                  IF ~InMemory(EntityClass(e)) /\ kw # {"dowell_api_key"} THEN "TypeError"
                  ELSE "",
                  "", {}, {}, ent[e].pkey, 0, ent[e])
  /\ UNCHANGED <<ent, cvars, lvars, bvars, yvars>>

\* datetime.isoformat(), the text "T" and the digit of the time
isoformat(d) == StrV(<<84, 48 + d.v>>)

\* parser.isoparse accepts the text
IsIso(x) == x.t = "str" /\ Len(x.v) = 2 /\ x.v[1] = 84 /\ x.v[2] \in 48..57

\* parser.isoparse(text)
isoparse(x) == DateV(x.v[2] - 48)

\* _prepare_dbobjects_in_value_for_db: a datetime becomes its ISO text
prepare_for_db(x) == IF x.t = "datetime" THEN isoformat(x) ELSE x

\* the text that names a class
ClassLoc(c) == StrV(<<67>>)

\* e.to_dbvalue(): the declared attributes and the location of the class
to_dbvalue(c, conf, attrs) ==
  {<<a, prepare_for_db(Get(attrs, a))>> : a \in Keys(conf.attributes)} \cup
  {<<"__classloc__", ClassLoc(c)>>}

\* the conversion of a database value to one allowed type succeeds
Converts(type, x) ==
  CASE type = "datetime" -> IsIso(x)
    [] type = "str" -> TRUE
    [] type = "none" -> x.t = "none"
    [] OTHER -> x.t = "none" \/ x.t = type

\* attr_type(attr_dbvalue) for the values of the model; None is kept
convert(type, x) ==
  IF type = "datetime" THEN isoparse(x)
  ELSE IF x.t = "none" THEN x
  ELSE IF type = "str" /\ x.t = "int" THEN StrV(<<48 + x.v>>)
  ELSE x

\* the first allowed type the value converts to, 0 when there is none
first_type(types, x) ==
  IF \E i \in 1..Len(types) : Converts(types[i], x)
  THEN CHOOSE i \in 1..Len(types) :
         Converts(types[i], x) /\ \A j \in 1..(i - 1) : ~Converts(types[j], x)
  ELSE 0

\* cls._clean_from_dbvalue(dbvalue, primary_key)
clean_from_dbvalue(conf, dbvalue, primary_key) ==
  {<<a, convert(Get(conf.attributes, a)[first_type(Get(conf.attributes, a), Get(dbvalue, a))],
                Get(dbvalue, a))>> :
     a \in {b \in Keys(conf.attributes) \cap Keys(dbvalue) :
              first_type(Get(conf.attributes, b), Get(dbvalue, b)) # 0}} \cup
  {<<primary_key, IF primary_key \in Keys(dbvalue) THEN Get(dbvalue, primary_key) ELSE NoneV>>}

\* cls.from_dbvalue(dbvalue, primary_key): the instance is initialised from
\* the cleaned value, then takes the primary key of the document
from_dbvalue(c, conf, dbvalue, primary_key, now) ==
  LET cleaned == clean_from_dbvalue(conf, dbvalue, primary_key)
      r == Object_init(c, conf, cleaned, NoneV, now, <<>>)
  IN IF r.exc # "" THEN r
     ELSE IF Get(cleaned, primary_key).t \notin {"none", "str"}
          THEN [r EXCEPT !.exc = "TypeError", !.attrs = {}]
     ELSE [r EXCEPT !.pkey = Get(cleaned, primary_key)]

\* T.from_dbvalue(e.to_dbvalue())
roundtrip(e, now) ==
  /\ eret = NoEret
  /\ ent[e].live
  /\ ~InMemory(EntityClass(e))
  /\ LET doc == to_dbvalue(EntityClass(e), ConfigOf(e), ent[e].attrs)
         r == from_dbvalue(EntityClass(e), ConfigOf(e), doc, "pkey", now)
     IN /\ eret' = Eret("roundtrip", e, r.exc, r.name, doc, r.attrs, r.pkey, now, ent[e])
        /\ cfg' = [cfg EXCEPT ![klass[EntityClass(e)].config].validators = r.validators]
  /\ UNCHANGED <<ent, klass, cret, lvars, bvars, yvars>>

\* the documents of messages that the backend can hold
MessageDocuments ==
  {Passed([type |-> t, body |-> b, sender |-> s, created_at |-> d, _id |-> i,
           __classloc__ |-> ClassLoc("CampaignMessage")]) :
     t \in {StrV(EMAIL), StrV(SMS), StrV(XX)},
     b \in {StrV(Body10), StrV(Hi), IntV(5)},
     s \in {StrV(Mail), StrV(Zz)},
     d \in {isoformat(DateV(1)), NoneV, Absent},
     i \in {StrV(id) : id \in DocIds}}

\* one step of DatacubeDB.fetch: T.from_dbvalue(document, primary_key="_id")
fetch(e, doc, now) ==
  /\ eret = NoEret
  /\ e = "m1"
  /\ LET r == from_dbvalue(EntityClass(e), ConfigOf(e), doc, "_id", now) IN
       /\ eret' = Eret("fetch", e, r.exc, r.name, doc, r.attrs, r.pkey, now, ent[e])
       /\ cfg' = [cfg EXCEPT ![klass[EntityClass(e)].config].validators = r.validators]
  /\ UNCHANGED <<ent, klass, cret, lvars, bvars, yvars>>

EntityInit == ConfigInit

\* the caller holds no pending result and no entity yet
Fresh == eret = NoEret /\ \A x \in EntityIds : ~ent[x].live

EntityNext ==
  \/ /\ Fresh
     /\ \E e \in EntityIds : \E attrs \in Kwargs(e) : \E now \in Clock :
          call_filter_attrs(e, attrs, now)
  \/ /\ Fresh
     /\ \E e \in EntityIds : \E attrs \in Kwargs(e) : \E now \in Clock : \E uuid \in UUIDs :
          construct(e, attrs, now, uuid)
  \/ \E e \in EntityIds : \E p \in Assignments(e) : assign(e, p[1], p[2])
  \/ \E e \in EntityIds : \E answer \in Answers : \E id \in DocIds : DBObject_save(e, answer, id)
  \/ \E e \in EntityIds : \E answer \in Answers : DBObject_delete(e, answer)
  \/ \E e \in EntityIds : \E kw \in SUBSET KwNames : manager_bulk_save(e, kw)
  \/ \E e \in EntityIds : \E now \in Clock : roundtrip(e, now)
  \/ /\ Fresh
     /\ \E doc \in MessageDocuments : \E now \in Clock : fetch("m1", doc, now)
  \/ entity_return

SpecEntity == EntityInit /\ [][EntityNext]_vars

\* a name that the caller did not set: not passed, or passed as None where
\* None is not an allowed type
C14_Unset(conf, a) ==
  \/ a \notin Keys(eret.arg)
  \/ Get(eret.arg, a).t = "none" /\ "none" \notin Range(Get(conf.attributes, a))

\* C14: filter_attrs returns a map over exactly the declared attributes, a
\* provided value kept (a None counting as unset when None is not an allowed
\* type), an unset optional attribute getting its default (the result of the
\* call for a factory, None without a default); an unset required attribute
\* raises AttributeRequired naming it; undeclared names do not appear.
C14_FilterAttrs ==
  eret.op = "filter_attrs" =>
    LET conf == ConfigOf(eret.ent) IN
      IF \E a \in Range(conf.required) : C14_Unset(conf, a)
      THEN /\ eret.exc = "AttributeRequired"
           /\ eret.name \in Range(conf.required)
           /\ C14_Unset(conf, eret.name)
      ELSE /\ eret.exc = ""
           /\ Keys(eret.val) = Keys(conf.attributes)
           /\ \A p \in eret.val : \A q \in eret.val : p[1] = q[1] => p = q
           /\ \A a \in Keys(conf.attributes) :
                Get(eret.val, a) =
                  IF ~C14_Unset(conf, a) THEN Get(eret.arg, a)
                  ELSE IF a \notin Keys(conf.defaults) THEN NoneV
                  ELSE IF Get(conf.defaults, a).t = "factory" THEN DateV(eret.now)
                  ELSE Get(conf.defaults, a)

\* a None passed for an attribute that does not allow it was replaced by the
\* default, an undeclared name was dropped and a factory default was called
C14_Witness ==
  /\ eret.op = "filter_attrs"
  /\ eret.exc = ""
  /\ \/ /\ eret.ent = "p1"
        /\ "foo" \in Keys(eret.arg)
        /\ "is_cool" \notin Keys(eret.arg)
        /\ Get(eret.val, "is_cool") = BoolV(TRUE)
        /\ Get(eret.val, "friends") = NoneV
     \/ /\ eret.ent = "m1"
        /\ "created_at" \notin Keys(eret.arg)
        /\ Get(eret.val, "created_at") = DateV(2)

\* the call passed every required attribute, and every value passed for a
\* declared attribute is of an allowed type
C15_WellTyped ==
  LET conf == ConfigOf(eret.ent) IN
    /\ Range(conf.required) \subseteq Keys(eret.arg)
    /\ \A p \in eret.arg :
         p[1] \in Keys(conf.attributes) => IsInstance(p[2], Get(conf.attributes, p[1]))

\* every value passed is one of the declared choices and raises in none of the
\* validators that run_validations applied to it
C15_Accepted ==
  LET conf == ConfigOf(eret.ent) IN
    \A p \in eret.arg :
      /\ p[1] \in Keys(conf.choices) => p[2] \in Range(Get(conf.choices, p[1]))
      /\ p[1] \in Keys(conf.validators) =>
           \A i \in 1..Len(Get(conf.validators, p[1])) :
             ~Raises(Get(conf.validators, p[1])[i], p[1], p[2])

C16_AssignmentChecked ==
  eret.op = "assign" =>
    LET conf == ConfigOf(eret.ent)
        a == eret.name
        x == Get(eret.arg, eret.name)
    IN /\ a \notin Keys(conf.attributes) => eret.exc = "UnregisteredAttributeError"
       /\ a \in Keys(conf.attributes) /\ ~IsInstance(x, Get(conf.attributes, a)) =>
            eret.exc = "TypeError"
       /\ /\ a \in Keys(conf.attributes)
          /\ IsInstance(x, Get(conf.attributes, a))
          /\ a \in Keys(conf.choices)
          /\ x \notin Range(Get(conf.choices, a))
          => eret.exc = "ValueError"
       /\ eret.exc # "" => ent[eret.ent] = eret.was

\* the entity conforms to its configuration
C17_Conforms(e) ==
  LET conf == ConfigOf(e) IN
    /\ Keys(ent[e].attrs) = Keys(conf.attributes)
    /\ \A a \in Range(conf.required) : Get(ent[e].attrs, a).t # "none"
    /\ \A p \in ent[e].attrs :
         p[2].t # "none" =>
           /\ IsInstance(p[2], Get(conf.attributes, p[1]))
           /\ p[1] \in Keys(conf.choices) => p[2] \in Range(Get(conf.choices, p[1]))

\* C17: in every state after its construction, whatever assignments follow,
\* an entity conforms to its configuration: required attributes non-null,
\* non-null values of an allowed type and among the declared choices.
C17_AlwaysConforms == \A e \in EntityIds : ent[e].live => C17_Conforms(e)

\* the primary key of the entity differs after the step
C18_PkeyChanged(e) ==
  \/ ent'[e].pkey.t # ent[e].pkey.t
  \/ ent[e].pkey.t = "str" /\ ent'[e].pkey.v # ent[e].pkey.v

C19_RoundTrip ==
  eret.op = "roundtrip" =>
    /\ eret.exc = ""
    /\ eret.val = ent[eret.ent].attrs
    /\ eret.pkey.t = ent[eret.ent].pkey.t
    /\ eret.pkey.t = "str" => eret.pkey.v = ent[eret.ent].pkey.v

\* C20: reconstruction from a stored document does not run the validations:
\* it raises no validation error, and the entity it returns has the primary
\* key of the document.
C20_NoRevalidation ==
  eret.op = "fetch" =>
    /\ eret.exc # "ValidationError"
    /\ eret.exc = "" => eret.pkey = Get(eret.arg, "_id")

(***************************************************************************)
(* The Datacube adapter: DatacubeDB.fetch, insert, update, delete and      *)
(* create_collection (datacube/db.py 57-260) over the client               *)
(* DowellDatacube (dowell/datacube.py).                                     *)
(***************************************************************************)
\* the operations of the adapter
AdapterOps == {"fetch", "insert", "update", "delete", "create_collection"}

\* the responses of the Datacube service: success, 404 with and without
\* "collection" in the message, 409, another 4xx, 5xx
Responses == {"ok", "404collection", "404", "409", "4xx", "5xx"}

\* DowellDatacube._handle_response_errors: the exception raised, "" for none
handle_response_errors(resp) ==
  CASE resp = "ok" -> ""
    [] resp = "404collection" -> "CollectionNotFoundError"
    [] resp = "404" -> "DatabaseNotFoundError"
    [] resp = "409" -> "AlreadyExistsError"
    [] resp = "4xx" -> "ConnectionError"
    [] OTHER -> "DatacubeError"

\* the exceptions of dowell/exceptions.py, all subclasses of DatacubeError
ClientErrors ==
  {"DatacubeError", "ConnectionError", "DatabaseNotFoundError", "CollectionNotFoundError",
   "AlreadyExistsError"}

\* DatabaseError of objects/exceptions.py and its subclasses of datacube/exceptions.py
DatabaseErrors ==
  {"DatabaseError", "FetchError", "InsertionError", "UpdateError", "DeletionError",
   "MigrationError"}

\* the subclass of DatabaseError an operation raises for its own failures
OpError(o) ==
  CASE o = "fetch" -> "FetchError"
    [] o = "insert" -> "InsertionError"
    [] o = "update" -> "UpdateError"
    [] o = "delete" -> "DeletionError"
    [] OTHER -> "DatabaseError"

\* the method of DowellDatacube behind an operation: the exception it raises.
\* A name that is no string is refused with TypeError; fetch returns
\* response.json()["data"] without a look at the status of the response,
\* the others call _handle_response_errors first
client(o, named, resp, hasdata) ==
  IF ~named THEN "TypeError"
  ELSE IF o = "fetch" THEN (IF hasdata THEN "" ELSE "KeyError")
  ELSE handle_response_errors(resp)

\* the except clauses around the client call in an operation of the adapter:
\* the exception that leaves them, "retry" when the collection is created
\* and the operation called again
translate(o, opted, x) ==
  IF x = "" THEN ""
  ELSE IF x \notin ClientErrors THEN x
  ELSE IF o = "create_collection" THEN "DatabaseError"
  ELSE IF x = "ConnectionError" THEN OpError(o)
  ELSE IF x = "CollectionNotFoundError" /\ o \in {"fetch", "insert"}
       THEN (IF opted THEN "retry" ELSE "UnboundLocalError")
  ELSE "DatabaseError"

\* an operation of the adapter is called and checks its arguments
adapter_call(o, opted, valid, haspkey, named) ==
  /\ adp = NoAdapterCall
  /\ adp' = [op |-> o, opted |-> opted, named |-> named, attempts |-> 0, creates |-> 0,
             log |-> <<>>,
             pc |-> IF valid /\ (o \in {"update", "delete"} => haspkey) THEN "client"
                    ELSE "done",
             exc |-> IF valid /\ (o \in {"update", "delete"} => haspkey) THEN ""
                     ELSE OpError(o)]
  /\ UNCHANGED not_dvars

\* the client is called and the service answers
client_answer(resp, hasdata) ==
  /\ adp.pc = "client"
  /\ adp.attempts < MaxAttempts
  /\ LET x == translate(adp.op, adp.opted, client(adp.op, adp.named, resp, hasdata)) IN
       adp' = [adp EXCEPT !.attempts = @ + 1,
                          !.log = Append(@, <<adp.op, resp>>),
                          !.pc = IF x = "retry" THEN "create" ELSE "done",
                          !.exc = IF x = "retry" THEN "" ELSE x]
  /\ UNCHANGED not_dvars

\* self.create_collection(...) in the handler of CollectionNotFoundError, then
\* `return self.insert(...)`: the operation starts again. In fetch, a
\* generator, `return self.fetch(...)` makes a new generator that nobody
\* iterates: the caller gets no document and no exception
create_answer(resp) ==
  /\ adp.pc = "create"
  /\ LET x == translate("create_collection", FALSE, handle_response_errors(resp)) IN
       adp' = [adp EXCEPT !.creates = @ + 1,
                          !.log = Append(@, <<"create_collection", resp>>),
                          !.pc = IF x = "" /\ adp.op = "insert" THEN "client" ELSE "done",
                          !.exc = x]
  /\ UNCHANGED not_dvars

\* the caller goes on
adapter_return ==
  /\ adp.pc = "done"
  /\ adp' = NoAdapterCall
  /\ UNCHANGED not_dvars

DBInit == ConfigInit

DBNext ==
  \/ \E o \in AdapterOps : \E opted, valid, haspkey, named \in BOOLEAN :
       adapter_call(o, opted, valid, haspkey, named \/ o # "insert")
  \/ \E resp \in Responses : \E hasdata \in BOOLEAN :
       client_answer(resp, hasdata \/ resp = "ok")
  \/ \E resp \in Responses : create_answer(resp)
  \/ adapter_return

SpecDB == DBInit /\ [][DBNext]_vars

\* C21: on a collection-not-found signal for a type that opted in, the
\* adapter calls create-collection once and retries the operation once: a
\* fetch or insert makes at most two attempts and creates at most once, and
\* a collection created for the retry is followed by the second attempt.
C21_RetryOnce ==
  adp.op \in {"fetch", "insert"} =>
    /\ adp.attempts <= 2
    /\ adp.creates <= 1
    /\ adp.pc = "done" /\ adp.creates = 1 /\ adp.exc = "" => adp.attempts = 2

\* C22: every failure of an operation of the adapter reaches the caller as
\* an exception of the DatabaseError family.
C22_OnlyDatabaseErrors ==
  adp.pc = "done" /\ adp.exc # "" => adp.exc \in DatabaseErrors

(***************************************************************************)
(* ObjectCache (objects/cache.py)                                          *)
(***************************************************************************)
\* the objects offered to the cache: a, b, c and d are of the type of the
\* cache, d with the primary key of a, n without a primary key; x is of
\* another type
CacheObjects == {"a", "b", "c", "d", "n", "x"}

\* obj.pkey, "None" for None
PkeyOf(o) ==
  CASE o \in {"a", "d"} -> "k1"
    [] o = "b" -> "k2"
    [] o = "c" -> "k3"
    [] o = "x" -> "k4"
    [] OTHER -> "None"

\* isinstance(obj, self.__objecttype__)
OfCacheType(o) == o # "x"

\* the values of max_size the caches are made with, -1 for no limit
CacheSizes == -1..MaxCache

\* ObjectCache.size
size(c) == Cardinality(c.register)

\* the test of the register property: the cache is corrupt
is_corrupt(c) ==
  \/ c.max_size >= 0 /\ size(c) > c.max_size
  \/ \E p \in c.register : p[1] = "None" \/ ~OfCacheType(p[2])

\* self.__register__[obj.pkey] = (timezone.now(), obj)
store(reg, o) == {p \in reg : p[1] # PkeyOf(o)} \cup {<<PkeyOf(o), o>>}

\* the report of a call on the cache
Kret(o, obj, exc) == [op |-> o, obj |-> obj, exc |-> exc, was |-> cache.register]

\* a cache that never counts as full
is_full_never(c) == FALSE

\* self.size == self.max_size
is_full(c) == size(c) = c.max_size

\* ObjectCache.insert(obj): a full cache is cleared or the call raises, then
\* the object is stored and the register read
cache_insert(o) ==
  /\ kret = NoKret
  /\ IF ~OfCacheType(o)
     THEN kret' = Kret("insert", o, "TypeError") /\ UNCHANGED cache
     ELSE IF is_full(cache) /\ ~cache.clear_when_full
     THEN kret' = Kret("insert", o, "RuntimeError: Cache is full") /\ UNCHANGED cache
     ELSE /\ cache' = [cache EXCEPT !.register = store(IF is_full(cache) THEN {} ELSE @, o)]
          /\ kret' = Kret("insert", o,
                          IF is_corrupt(cache') THEN "RuntimeError: Cache is corrupt" ELSE "")
  /\ UNCHANGED not_kvars

\* ObjectCache.update(obj): the register is read first
cache_update(o) ==
  /\ kret = NoKret
  /\ kret' = Kret("update", o,
                  IF ~OfCacheType(o) THEN "TypeError"
                  ELSE IF is_corrupt(cache) THEN "RuntimeError: Cache is corrupt"
                  ELSE IF PkeyOf(o) \notin {p[1] : p \in cache.register} THEN "ValueError"
                  ELSE "")
  /\ cache' = IF kret'.exc = "" THEN [cache EXCEPT !.register = store(@, o)] ELSE cache
  /\ UNCHANGED not_kvars

\* ObjectCache.remove(obj): the register is read first
cache_remove(o) ==
  /\ kret = NoKret
  /\ kret' = Kret("remove", o,
                  IF ~OfCacheType(o) THEN "TypeError"
                  ELSE IF is_corrupt(cache) THEN "RuntimeError: Cache is corrupt"
                  ELSE IF PkeyOf(o) \notin {p[1] : p \in cache.register} THEN "ValueError"
                  ELSE "")
  /\ cache' = IF kret'.exc = ""
              THEN [cache EXCEPT !.register = {p \in @ : p[1] # PkeyOf(o)}]
              ELSE cache
  /\ UNCHANGED not_kvars

\* ObjectCache.clear()
cache_clear ==
  /\ kret = NoKret
  /\ kret' = Kret("clear", "", "")
  /\ cache' = [cache EXCEPT !.register = {}]
  /\ UNCHANGED not_kvars

\* the caller goes on
cache_return ==
  /\ kret # NoKret
  /\ kret' = NoKret
  /\ UNCHANGED <<cache, not_kvars>>

\* ObjectCache(T, max_size=n, clear_when_full=b)
CacheInit ==
  /\ ListIdle
  /\ BulkIdle
  /\ ConfigIdle
  /\ EntityIdle
  /\ AdapterIdle
  /\ DeleteIdle
  /\ ReportIdle
  /\ RunIdle
  /\ cache \in [max_size : CacheSizes, clear_when_full : BOOLEAN, register : {{}}]
  /\ kret = NoKret

CacheNext ==
  \/ \E o \in CacheObjects : cache_insert(o)
  \/ \E o \in CacheObjects : cache_update(o)
  \/ \E o \in CacheObjects : cache_remove(o)
  \/ cache_clear
  \/ cache_return

SpecCache == CacheInit /\ [][CacheNext]_vars

\* C23: a cache made with max_size >= 0 keeps its integrity through every
\* insert, update, remove and clear: it holds at most max_size entries,
\* every key is a string and every value is of the type of the cache.
C23_CacheIntegrity ==
  cache.max_size >= 0 =>
    /\ Cardinality(cache.register) <= cache.max_size
    /\ \A p \in cache.register : p[1] # "None" /\ OfCacheType(p[2])

\* the cache held max_size entries when the call was made
C24_WasFull == Cardinality(kret.was) = cache.max_size

adelete_binds(o, kw) == ClassOf(o) = "Campaign" => kw = {"dowell_api_key"}

\* the coroutine obj.adelete(...) calls the delete of the backend when it
\* runs: DBObject.adelete returns self.delete(...); DatacubeObject.adelete
\* returns the coroutine of super().adelete(...) without awaiting it
adelete_calls(o) == ClassOf(o) # "Campaign"

\* the members of the collection when delete returns: adelete runs on the
\* list that all() returned and removes nothing anywhere
members_after_delete(objs, deleted) == objs

\* ObjectList.delete(**kw) on a detached collection with the members objs;
\* failing are the entities whose backend delete raises
list_delete(objs, kw, failing) ==
  /\ del = NoDelete
  /\ LET todo == SelectSeq(objs, LAMBDA o : SupportsDB(ClassOf(o)))
         made == SelectSeq(todo, LAMBDA o : adelete_calls(o))
     IN IF \E i \in 1..Len(todo) : ~adelete_binds(todo[i], kw)
        THEN del' = [pc |-> "done", objs |-> objs, kw |-> kw, failing |-> failing,
                     calls |-> <<>>, exc |-> "TypeError"]
        ELSE del' = [pc |-> "done", objs |-> members_after_delete(objs, made), kw |-> kw,
                     failing |-> failing, calls |-> made,
                     exc |-> IF Range(made) \cap failing # {} THEN "DatabaseError" ELSE ""]
  /\ UNCHANGED not_gvars

\* the caller goes on
delete_return ==
  /\ del.pc = "done"
  /\ del' = NoDelete
  /\ UNCHANGED not_gvars

\* the collections delete is called on: entities of one class
Collections ==
  {objs \in BulkOffers : \A i \in 1..Len(objs) : ClassOf(objs[i]) = ClassOf(objs[1])}

DeleteInit == ConfigInit

DeleteNext ==
  \/ \E objs \in Collections : \E kw \in SUBSET KwNames : \E failing \in SUBSET {"b1", "b2"} :
       list_delete(objs, kw, failing)
  \/ delete_return

SpecDelete == DeleteInit /\ [][DeleteNext]_vars

\* C25: delete() issues one backend delete call for each member that
\* supports persistence, and when it returns the deleted entities are no
\* longer members of the collection.
C25_DeleteRemovesMembers ==
  del.pc = "done" /\ del.exc = "" =>
    /\ \A o \in BulkEntities :
         SupportsDB(ClassOf(o)) /\ o \in Range(del.objs) \cup Range(del.calls) =>
           Cardinality({i \in 1..Len(del.calls) : del.calls[i] = o}) >= 1
    /\ \A i \in 1..Len(del.calls) : del.calls[i] \notin Range(del.objs)


(***************************************************************************)
(* Run reports: CampaignRunReport (reports/dbobjects.py 11-85), an entity  *)
(* whose `events` attribute is a list of dicts, each with the time it      *)
(* occurred at.  The lists are objects with an identity: the one that      *)
(* config.defaults holds, and the ones that callers pass.                  *)
(***************************************************************************)
Reports == {"r1", "r2"}
ListIds == {"default", "l1", "l2"}

\* the list a caller builds for the report r
OwnList(r) == IF r = "r1" THEN "l1" ELSE "l2"

DictV(d) == [t |-> "dict", v |-> d]

\* s.upper()
Upper(s) == [i \in 1..Len(s) |-> IF s[i] \in 97..122 THEN s[i] - 32 ELSE s[i]]

\* the texts "info", "error" and "fatal"
Info == <<105, 110, 102, 111>>
Error == <<101, 114, 114, 111, 114>>
Fatal == <<102, 97, 116, 97, 108>>
Warning == <<119, 97, 114, 110, 105, 110, 103>>

\* the event types offered to add_event
EventTypes == {Info, Fatal}

\* the report that the model titles again and saves; the other one is a
\* bystander built from the same Configuration
Saved == {"r1"}

\* the time at which the reports of the model are made and saved
ReportNow == DateV(1)

\* the n-th identifier that uuid.uuid4() hands out
uuid4(n) == <<117, 48 + n>>

\* the titles offered: one shorter than min_length
Titles == {StrV(XX), StrV(Body10)}

\* the events of all lists together
TotalEvents == Len(heap["default"]) + Len(heap["l1"]) + Len(heap["l2"])

RECURSIVE prepare_dbobjects_in_value_for_db(_)
\* _prepare_dbobjects_in_value_for_db(value): wire is what it returns, own
\* is the value the caller still holds afterwards.  A dict is written into
\* key by key and returned itself; a list is copied before its items are
\* replaced, but the items are converted as the objects they are
prepare_dbobjects_in_value_for_db(x) ==
  CASE x.t = "dict" ->
         LET d == DictV({<<p[1], prepare_dbobjects_in_value_for_db(p[2]).wire>> : p \in x.v})
         IN [wire |-> d, own |-> d]
    [] x.t = "list" ->
         [wire |-> ListV([i \in 1..Len(x.v) |-> prepare_dbobjects_in_value_for_db(x.v[i]).wire]),
          own |-> ListV([i \in 1..Len(x.v) |-> prepare_dbobjects_in_value_for_db(x.v[i]).own])]
    [] x.t = "datetime" -> [wire |-> isoformat(x), own |-> x]
    [] OTHER -> [wire |-> x, own |-> x]

\* the campaign the reports of the model belong to
CampaignId == StrV(<<99, 49>>)

\* r.to_dbvalue(): the wire value, and the events list afterwards
report_to_dbvalue(r, h) ==
  LET events == prepare_dbobjects_in_value_for_db(ListV(h[r.events])) IN
  [wire |-> {<<"campaign_id", CampaignId>>,
             <<"title", prepare_dbobjects_in_value_for_db(r.title).wire>>,
             <<"events", events.wire>>,
             <<"created_at", prepare_dbobjects_in_value_for_db(r.created_at).wire>>,
             <<"updated_at", prepare_dbobjects_in_value_for_db(r.updated_at).wire>>,
             <<"__classloc__", ClassLoc("CampaignRunReport")>>},
   events |-> events.own.v]

\* run_validations of a report finds no error: validate_not_blank and
\* MinMaxLengthValidator(min_length=3, max_length=255) on the title
report_valid(r) ==
  r.title.t = "none" \/ (~Falsy(r.title) /\ Len(r.title.v) >= 3 /\ Len(r.title.v) <= 255)

\* the report of a call on a run report
Rret(o, r, exc, log, wire, pk) ==
  [op |-> o, rep |-> r, exc |-> exc, log |-> log, wire |-> wire, was |-> heap, pkey |-> pk]

\* r = CampaignRunReport(campaign_id=..., title=title[, events=[]]): without
\* the keyword, filter_attrs takes get_default_for("events"), which hands
\* out the list of config.defaults itself, an empty list not being callable
CampaignRunReport_init(r, title, passed) ==
  /\ rret = NoRret
  /\ ~rep[r].live
  /\ LET made == [live |-> TRUE, title |-> title,
                  events |-> IF passed THEN OwnList(r) ELSE "default",
                  created_at |-> ReportNow, updated_at |-> NoneV, pkey |-> NoneV]
     IN IF report_valid(made)
        THEN /\ rep' = [rep EXCEPT ![r] = made]
             /\ rret' = Rret("init", r, "", <<>>, {}, NoneV)
        ELSE /\ rep' = rep
             /\ rret' = Rret("init", r, "ValidationError", <<>>, {}, NoneV)
  /\ UNCHANGED <<heap, not_rvars>>

\* r.title = title
set_title(r, title) ==
  /\ rret = NoRret
  /\ rep[r].live
  /\ rep' = [rep EXCEPT ![r].title = title]
  /\ rret' = Rret("set_title", r, "", <<>>, {}, rep[r].pkey)
  /\ UNCHANGED <<heap, not_rvars>>

\* r.add_event(event_type, {"n": 1})
add_event(r, event_type, now) ==
  /\ rret = NoRret
  /\ rep[r].live
  /\ TotalEvents < MaxEvents
  /\ IF Lower(event_type) \notin {Info, Warning, Error}
     THEN /\ heap' = heap
          /\ rret' = Rret("add_event", r, "ValueError", <<>>, {}, rep[r].pkey)
     ELSE /\ heap' = [heap EXCEPT ![rep[r].events] =
                        Append(@, DictV({<<"id", StrV(uuid4(TotalEvents + 1))>>,
                                         <<"type", StrV(Upper(event_type))>>,
                                         <<"data", DictV({<<"n", IntV(1)>>})>>,
                                         <<"occurred_at", DateV(now)>>}))]
          /\ rret' = Rret("add_event", r, "", <<>>, {}, rep[r].pkey)
  /\ UNCHANGED <<rep, not_rvars>>

\* r.to_dbvalue()
to_dbvalue_call(r) ==
  /\ rret = NoRret
  /\ rep[r].live
  /\ heap' = [heap EXCEPT ![rep[r].events] = report_to_dbvalue(rep[r], heap).events]
  /\ rret' = Rret("to_dbvalue", r, "", <<>>, report_to_dbvalue(rep[r], heap).wire, rep[r].pkey)
  /\ UNCHANGED <<rep, not_rvars>>

\* a save that writes before it validates
save_steps_write_first(valid, haspkey, answer) ==
  IF haspkey THEN [log |-> <<"pre_save">>, exc |-> "TypeError"]
  ELSE IF answer # "ok" THEN [log |-> <<"pre_save", "insert">>, exc |-> "DatabaseError"]
  ELSE IF ~valid THEN [log |-> <<"pre_save", "insert">>, exc |-> "ValidationError"]
  ELSE [log |-> <<"pre_save", "insert", "post_save">>, exc |-> ""]

\* the signals sent, the backend writes issued and the exception raised by
\* DBObject.save, in the order of the code: pre_save, run_validations,
\* insert or update, post_save.  DatacubeDB.update takes no
\* collection_name, so the update of a saved Datacube entity is a TypeError
save_steps(valid, haspkey, answer) ==
  IF ~valid THEN [log |-> <<"pre_save">>, exc |-> "ValidationError"]
  ELSE IF haspkey THEN [log |-> <<"pre_save">>, exc |-> "TypeError"]
  ELSE IF answer # "ok" THEN [log |-> <<"pre_save", "insert">>, exc |-> "DatabaseError"]
  ELSE [log |-> <<"pre_save", "insert", "post_save">>, exc |-> ""]

\* r.save(dowell_api_key=k): the auto_now attribute updated_at is set before
\* the validations; DatacubeDB.insert converts the entity before it calls
\* the service and sets _pkey when the service returns
report_save(r, answer, id) ==
  /\ rret = NoRret
  /\ rep[r].live
  /\ LET stamped == [rep[r] EXCEPT !.updated_at = ReportNow]
         s == save_steps(report_valid(stamped), ~Falsy(stamped.pkey), answer)
         inserted == \E i \in 1..Len(s.log) : s.log[i] = "insert"
     IN /\ rep' = [rep EXCEPT ![r] = IF s.exc = "" THEN [stamped EXCEPT !.pkey = StrV(id)]
                                     ELSE stamped]
        /\ heap' = IF inserted
                   THEN [heap EXCEPT ![stamped.events] = report_to_dbvalue(stamped, heap).events]
                   ELSE heap
        /\ rret' = Rret("save", r, s.exc, s.log,
                        IF inserted THEN report_to_dbvalue(stamped, heap).wire ELSE {},
                        rep[r].pkey)
  /\ UNCHANGED not_rvars

report_return ==
  /\ rret # NoRret
  /\ rret' = NoRret
  /\ UNCHANGED <<heap, rep, not_rvars>>

ReportInit == ConfigInit

ReportNext ==
  \/ \E r \in Reports : \E title \in Titles : \E passed \in BOOLEAN :
       CampaignRunReport_init(r, title, passed)
  \/ \E r \in Saved : \E title \in Titles : set_title(r, title)
  \/ \E r \in Reports : \E event_type \in EventTypes : \E now \in Clock :
       add_event(r, event_type, now)
  \/ \E r \in Reports : to_dbvalue_call(r)
  \/ \E r \in Saved : \E answer \in Answers : \E id \in DocIds : report_save(r, answer, id)
  \/ report_return

SpecReport == ReportInit /\ [][ReportNext]_vars

\* the position of the first x in the log, 0 when it is not there
LogPos(log, x) ==
  IF \E i \in 1..Len(log) : log[i] = x
  THEN CHOOSE i \in 1..Len(log) : log[i] = x /\ \A j \in 1..(i - 1) : log[j] # x
  ELSE 0

\* C27: converting an entity to its wire value does not modify the entity:
\* after to_dbvalue(), and after save, the events list of every report holds
\* the same events as before, with their timestamps still timestamps.
C27_ConversionKeepsEntity ==
  rret.op \in {"to_dbvalue", "save"} => \A l \in ListIds : heap[l] = rret.was[l]

\* C28: when the validations fail inside save, no insert or update is
\* issued, the primary key is unchanged and post_save is not sent; post_save
\* is sent only after a backend write that succeeded, and after pre_save.
C28_ValidateBeforeWrite ==
  rret.op = "save" =>
    /\ rret.exc = "ValidationError" =>
         /\ LogPos(rret.log, "insert") = 0
         /\ LogPos(rret.log, "update") = 0
         /\ LogPos(rret.log, "post_save") = 0
         /\ rep[rret.rep].pkey = rret.pkey
    /\ LogPos(rret.log, "post_save") > 0 =>
         /\ rret.exc = ""
         /\ \E w \in {"insert", "update"} :
              /\ LogPos(rret.log, w) > 0
              /\ LogPos(rret.log, w) < LogPos(rret.log, "post_save")
         /\ LogPos(rret.log, "pre_save") > 0
         /\ LogPos(rret.log, "pre_save") < LogPos(rret.log, "post_save")
         /\ rep[rret.rep].pkey.t = "str"

\* a save of an unsaved report refused by the validations
C28_Witness ==
  /\ rret.op = "save"
  /\ rret.exc = "ValidationError"
  /\ rret.pkey.t = "none"
  /\ rret.log = <<"pre_save">>

\* C29: entities built from the same Configuration do not share attribute
\* state: add_event through one report leaves the events of every other
\* report unchanged.
C29_NoSharedDefault ==
  rret.op = "add_event" /\ rret.exc = "" =>
    \A r \in Reports \ {rret.rep} : rep[r].live => heap[rep[r].events] = rret.was[rep[r].events]


(***************************************************************************)
(* Running a campaign: Campaign.run, _prerun, _started_running and         *)
(* _stopped_running (campaigns/dbobjects.py 449-579) and the periodic task *)
(* run_due_campaigns (campaigns/tasks.py 43-75).  cam.is_running is the    *)
(* attribute in memory, cam.stored the one of the stored document.         *)
(***************************************************************************)
\* campaign.save(dowell_api_key=...): a campaign without a primary key is
\* inserted; one that has a primary key goes to using.update(self,
\* collection_name=..., **kwargs) (types/db.py 415), a keyword that
\* DatacubeDB.update does not take
campaign_save(haspkey, answer) ==
  IF haspkey THEN "TypeError"
  ELSE IF answer = "ok" THEN ""
  ELSE "DatabaseError"

\* the campaign after save() with that outcome: the document holds the flag
\* of the entity
after_save(c, outcome) ==
  IF outcome = "" THEN [c EXCEPT !.pkey = TRUE, !.stored = c.is_running] ELSE c

\* a caller that holds the campaign calls campaign.run(raise_exception=...)
call_run(raise_exception) ==
  /\ cam.pc = "idle"
  /\ cam.runs < MaxRuns
  /\ cam' = [cam EXCEPT !.pc = "prerun", !.caller = "caller", !.runs = @ + 1,
                        !.raise_exception = raise_exception, !.log = <<"run">>]
  /\ UNCHANGED not_uvars

\* run_due_campaigns comes to the campaign, fetched from the backend: one
\* that is inactive or running is saved and skipped, the others are run
\* with raise_exception=False
run_due_campaigns(is_active, answer) ==
  /\ cam.pc = "idle"
  /\ cam.runs < MaxRuns
  /\ cam.pkey
  /\ LET fetched == [cam EXCEPT !.is_running = cam.stored, !.caller = "task", !.runs = @ + 1,
                                !.raise_exception = FALSE]
     IN cam' = IF ~is_active \/ fetched.is_running
               THEN [after_save(fetched, campaign_save(fetched.pkey, answer)) EXCEPT
                       !.pc = "done", !.exc = campaign_save(fetched.pkey, answer),
                       !.log = <<"skipped">>]
               ELSE [fetched EXCEPT !.pc = "prerun", !.log = <<"run">>]
  /\ UNCHANGED not_uvars

\* _prerun: is_runnable refuses a campaign that is running, inactive, not
\* launched, or whose creator lacks the service or the credits
prerun(others_ok) ==
  /\ cam.pc = "prerun"
  /\ cam' = IF ~cam.is_running /\ others_ok
            THEN [cam EXCEPT !.pc = "starting", !.log = Append(@, "runnable")]
            ELSE [cam EXCEPT !.pc = "raised", !.exc = "ValidationError"]
  /\ UNCHANGED not_uvars

\* _started_running, called before the try block of run: the flag is set,
\* the campaign saved, the report built and the signal sent
started_running(answer, report_ok) ==
  /\ cam.pc = "starting"
  /\ LET set == [cam EXCEPT !.is_running = TRUE]
         outcome == campaign_save(set.pkey, answer)
         saved == after_save(set, outcome)
     IN cam' = IF outcome # ""
               THEN [saved EXCEPT !.pc = "raised", !.exc = outcome, !.log = Append(@, "started")]
               ELSE IF ~report_ok
               THEN [saved EXCEPT !.pc = "raised", !.exc = "ValidationError",
                                  !.log = Append(@, "started")]
               ELSE [saved EXCEPT !.pc = "sending", !.log = Append(@, "started")]
  /\ UNCHANGED not_uvars

\* the try block of run: get_message, audiences.subscribed, message.send
send(failure) ==
  /\ cam.pc = "sending"
  /\ cam' = [cam EXCEPT !.pc = "stopping", !.e = failure, !.log = Append(@, "sent")]
  /\ UNCHANGED not_uvars

\* the finally block of run: _stopped_running clears the flag, saves the
\* report and, in its own finally, the campaign; an exception of the finally
\* clause replaces the pending one
stopped_running(report_answer, answer) ==
  /\ cam.pc = "stopping"
  /\ LET cleared == [cam EXCEPT !.is_running = FALSE]
         outcome == campaign_save(cleared.pkey, answer)
         saved == after_save(cleared, outcome)
         exc == IF outcome # "" THEN outcome
                ELSE IF report_answer # "ok" THEN "DatabaseError"
                ELSE IF cam.e # "" /\ cam.raise_exception THEN cam.e
                ELSE ""
     IN cam' = [saved EXCEPT !.pc = IF exc = "" THEN "returned" ELSE "raised",
                             !.exc = exc, !.log = Append(@, "stopped")]
  /\ UNCHANGED not_uvars

\* run is over.  The except clause of run_due_campaigns logs the exception
\* and saves the campaign; the exception of that save leaves the task
run_over(answer) ==
  /\ cam.pc \in {"returned", "raised"}
  /\ cam' = IF cam.caller = "task" /\ cam.pc = "raised"
            THEN LET outcome == campaign_save(cam.pkey, answer) IN
                 [after_save(cam, outcome) EXCEPT !.pc = "done", !.exc = outcome,
                                                  !.log = Append(@, "handled")]
            ELSE [cam EXCEPT !.pc = "done"]
  /\ UNCHANGED not_uvars

\* the task or the caller goes on; the campaign stays as it is
rest ==
  /\ cam.pc = "done"
  /\ cam' = [cam EXCEPT !.pc = "idle", !.caller = "", !.raise_exception = FALSE, !.e = "",
                        !.exc = "", !.log = <<>>]
  /\ UNCHANGED not_uvars

\* a campaign that is not running, saved before or not
RunInit ==
  /\ ListIdle
  /\ BulkIdle
  /\ ConfigIdle
  /\ EntityIdle
  /\ AdapterIdle
  /\ CacheIdle
  /\ DeleteIdle
  /\ ReportIdle
  /\ cam \in {[NoRun EXCEPT !.pkey = k] : k \in BOOLEAN}

RunNext ==
  \/ \E raise_exception \in BOOLEAN : call_run(raise_exception)
  \/ \E is_active \in BOOLEAN : \E answer \in Answers : run_due_campaigns(is_active, answer)
  \/ \E others_ok \in BOOLEAN : prerun(others_ok)
  \/ \E answer \in Answers : \E report_ok \in BOOLEAN : started_running(answer, report_ok)
  \/ \E failure \in {"", "SendError"} : send(failure)
  \/ \E report_answer, answer \in Answers : stopped_running(report_answer, answer)
  \/ \E answer \in Answers : run_over(answer)
  \/ rest

SpecRun == RunInit /\ [][RunNext]_vars

\* C30: whenever no run() of the campaign is executing - after run returned
\* or raised at any step, and after run_due_campaigns handled the exception
\* and saved the campaign - is_running is False in memory and in the
\* backend.
C30_NotRunningAtRest ==
  cam.pc \in {"idle", "done"} => ~cam.is_running /\ ~cam.stored

=============================================================================
